---- MODULE Spec2Model ----
(***************************************************************************)
(* Medicare LCD policy discovery: the Step2 finders                        *)
(*   Step2_Find_allPolicy_URLs_Simple.py  (SimpleLCDFinder)                *)
(*   Step2_Find_allPolicy_URLs.py         (LCDPolicyFinder)                *)
(*   Step2_Quick_LCD_Finder.py            (quick_find_lcd_policies)        *)
(*   Step2_Manual_LCD_List.py             (save_comprehensive_lcd_list)    *)
(*                                                                         *)
(* Python strings are sequences of tokens.  A token is a marker the code   *)
(* searches for ("LCD", "Error", "Local Coverage Determination", ...), a   *)
(* single character that matters to a regular expression ("L", a digit),   *)
(* a blank " " or a piece of other text.  `x in s` is token membership,    *)
(* str(n) and int(s) are the decimal conversions.                          *)
(***************************************************************************)
EXTENDS Integers, Sequences, FiniteSets, Bags, TLC

VARIABLES
    prog,           \* which script runs: "simple", "finder", "quick", "manual",
                    \* "download", or a harness applying one function: "classify",
                    \* "links", "merge", "pages"
    pc,             \* control point of the script
    lcd_urls,       \* self.lcd_urls (quick: the local lcd_policies)
    processed_ids,  \* self.processed_ids
    catalog,        \* output_data as dumped to All_urls.json, or NoCatalog
    clock,          \* datetime.now(): advances with every step
    k,              \* position in the list the current loop iterates
    r,              \* index into search_ranges / report_urls
    range_found,    \* range_found of find_lcd_policies_systematically
    total_tested,   \* total_tested of find_lcd_policies_systematically
    found_count,    \* found_count of try_known_lcd_patterns / quick_find
    misses,         \* remote source: live identifiers that have not served a policy page
    fetched,        \* bag of identifiers page.goto was issued for (probe URLs)
    page,           \* what the last probe observed of the page
    out,            \* the last call into the page layer: who made it, for which
                    \* identifier, where it raised, and the policy_info it gave
    downloader,     \* the BulkLCDDownloader and the policies it loaded, or NoDownloader
    files           \* the PDF files in Download_PDFs: the lcd_id each is named by

vars ==
    <<prog, pc, lcd_urls, processed_ids, catalog, clock, k, r, range_found,
      total_tested, found_count, misses, fetched, page, out, downloader, files>>

----------------------------------------------------------------------------
(* Bounds of the model *)

\* longest page title, in tokens
MaxTitleLen ==
    2

\* longest page body, in tokens
MaxBodyLen ==
    2

\* how many identifiers at the start of the first search range may serve a policy
NumLiveCoarse ==
    6

\* how many identifiers at the start of test_lcd_ids may serve a policy
NumLivePattern ==
    11

\* how many probes of those identifiers may come back without a policy page
MaxMisses ==
    1

\* how many identifiers at the start of test_ids may serve a policy
NumLiveQuick ==
    3

\* longest list of records handed to the merge step
MaxMergeLen ==
    3

\* longest list of policies load_policy_urls hands to the downloader
MaxPolicies ==
    3

----------------------------------------------------------------------------
(* Strings *)

\* Python's None where a policy_info dictionary is expected
None ==
    [none |-> TRUE]

\* no file has been written yet
NoCatalog ==
    [written |-> FALSE]

\* no BulkLCDDownloader was made
NoDownloader ==
    [made |-> FALSE]

LCDet ==
    "Local Coverage Determination"

DigitChars ==
    <<"0", "1", "2", "3", "4", "5", "6", "7", "8", "9">>

IsDigit(c) ==
    \E d \in 1..10 : DigitChars[d] = c

DigitVal(c) ==
    (CHOOSE d \in 1..10 : DigitChars[d] = c) - 1

\* str(n) for n >= 0
RECURSIVE ToStr(_)
ToStr(n) ==
    IF n < 10 THEN <<DigitChars[n + 1]>>
    ELSE ToStr(n \div 10) \o <<DigitChars[(n % 10) + 1]>>

\* int(s) for a non-empty string of digits
RECURSIVE ToInt(_)
ToInt(s) ==
    IF Len(s) = 1 THEN DigitVal(s[1])
    ELSE 10 * ToInt(SubSeq(s, 1, Len(s) - 1)) + DigitVal(s[Len(s)])

\* tok in s
Contains(s, tok) ==
    \E i \in 1..Len(s) : s[i] = tok

\* s.replace(tok, "")
RECURSIVE Remove(_, _)
Remove(s, tok) ==
    IF s = <<>> THEN <<>>
    ELSE IF Head(s) = tok THEN Remove(Tail(s), tok)
    ELSE <<Head(s)>> \o Remove(Tail(s), tok)

RECURSIVE LStrip(_)
LStrip(s) ==
    IF s # <<>> /\ Head(s) = " " THEN LStrip(Tail(s)) ELSE s

RECURSIVE RStrip(_)
RStrip(s) ==
    IF s # <<>> /\ s[Len(s)] = " " THEN RStrip(SubSeq(s, 1, Len(s) - 1)) ELSE s

\* s.strip()
Strip(s) ==
    RStrip(LStrip(s))

\* the longest run of digits of s starting at position i
RECURSIVE DigitsFrom(_, _)
DigitsFrom(s, i) ==
    IF i <= Len(s) /\ IsDigit(s[i]) THEN <<s[i]>> \o DigitsFrom(s, i + 1) ELSE <<>>

\* re.search(prefix + r'(\d+)', s): group(1), the digits after the first
\* occurrence of the token prefix that a digit follows; <<>> when there is no match
SearchDigitsAfter(s, prefix) ==
    LET hits == {i \in 1..Len(s) : s[i] = prefix /\ DigitsFrom(s, i + 1) # <<>>}
    IN  IF hits = {} THEN <<>>
        ELSE LET i == CHOOSE j \in hits : \A j2 \in hits : j <= j2
             IN  DigitsFrom(s, i + 1)

\* re.search(r'(L\d+)', s): group(1); <<>> when there is no match
SearchDocCode(s) ==
    LET d == SearchDigitsAfter(s, "L")
    IN  IF d = <<>> THEN <<>> ELSE <<"L">> \o d

\* all strings of at most n tokens over the alphabet A
StringsUpTo(A, n) ==
    UNION {[1..m -> A] : m \in 0..n}

----------------------------------------------------------------------------
(* Pages and the three probe classifiers *)

\* a page as the remote source serves it: page.title(), page.content() and the
\* heading element query_selector finds (h1.present = FALSE: no such element)
NoHeading ==
    [present |-> FALSE, text |-> <<>>]

Heading(t) ==
    [present |-> TRUE, text |-> t]

\* where a probe raises: nowhere, in page.goto, in page.content()/page.title(),
\* or in query_selector/inner_text
Faults ==
    {"none", "goto", "read", "sel"}

\* f"https://www.cms.gov/medicare-coverage-database/view/lcd.aspx?LCDId={lcd_id}"
ProbeUrl(lcd_id) ==
    <<"https://www.cms.gov", "/medicare-coverage-database/view/", "lcd.aspx", "?", "LCDId=">>
        \o ToStr(lcd_id)

\* DerivedCode without the letter
DerivedCode_Bare(lcd_id) ==
    ToStr(lcd_id)

\* f"L{lcd_id}"
DerivedCode(lcd_id) ==
    <<"L">> \o ToStr(lcd_id)

\* f"LCD Policy L{lcd_id}"
PlaceholderTitle(lcd_id) ==
    <<"LCD", " ", "Policy", " ">> \o DerivedCode(lcd_id)

\* ExtractTitle looking at processed_ids: the placeholder for a known identifier
ExtractTitle_Remembering(pg, lcd_id, fault) ==
    IF fault = "sel" \/ ToStr(lcd_id) \in processed_ids THEN PlaceholderTitle(lcd_id)
    ELSE IF pg.h1.present THEN pg.h1.text
    ELSE Strip(Remove(pg.title, " - CMS"))

\* the title extraction shared by validate_lcd_url and quick_find_lcd_policies
ExtractTitle(pg, lcd_id, fault) ==
    IF fault = "sel" THEN PlaceholderTitle(lcd_id)
    ELSE IF pg.h1.present THEN pg.h1.text
    ELSE Strip(Remove(pg.title, " - CMS"))

\* validate_lcd_url that hands back what it had gathered when the page read raised
validate_lcd_url_Partial(pg, lcd_id, fault) ==
    IF fault = "goto" THEN None
    ELSE [lcd_id |-> ToStr(lcd_id), url |-> ProbeUrl(lcd_id)]

\* SimpleLCDFinder.validate_lcd_url: the policy_info returned, or None.
\* Python parses the test as   A or (B and C and D).
validate_lcd_url(pg, lcd_id, fault) ==
    IF fault \in {"goto", "read"} THEN None
    ELSE IF \/ Contains(pg.body, LCDet)
            \/ /\ Contains(pg.title, "LCD")
               /\ ~Contains(pg.title, "Error")
               /\ ~Contains(pg.title, "Not Found")
    THEN LET policy_title == ExtractTitle(pg, lcd_id, fault)
             doc_id_match == SearchDocCode(pg.body)
         IN  [lcd_id     |-> ToStr(lcd_id),
              doc_id     |-> IF doc_id_match # <<>> THEN doc_id_match
                             ELSE DerivedCode(lcd_id),
              title      |-> Strip(policy_title),
              url        |-> ProbeUrl(lcd_id),
              found_date |-> clock]
    ELSE None

\* LCDPolicyFinder.try_known_lcd_patterns: the policy_info built for one
\* identifier, or None (query_selector is not used: fault "sel" cannot occur)
pattern_policy_info(pg, lcd_id, fault) ==
    IF fault \in {"goto", "read"} THEN None
    ELSE IF /\ Contains(pg.title, "LCD")
            /\ ~Contains(pg.title, "Error")
            /\ Contains(pg.body, LCDet)
    THEN [lcd_id     |-> ToStr(lcd_id),
          doc_id     |-> DerivedCode(lcd_id),
          title      |-> pg.title,
          url        |-> ProbeUrl(lcd_id),
          found_date |-> clock]
    ELSE None

\* quick_policy_info without the test for the marker "LCD"
quick_policy_info_NoMarker(pg, lcd_id, fault) ==
    IF fault \in {"goto", "read"} THEN None
    ELSE IF /\ ~Contains(pg.title, "Error")
            /\ ~Contains(pg.title, "Not Found")
            /\ ~Contains(pg.title, "Search")
    THEN [lcd_id     |-> ToStr(lcd_id),
          doc_id     |-> DerivedCode(lcd_id),
          title      |-> Strip(ExtractTitle(pg, lcd_id, fault)),
          url        |-> ProbeUrl(lcd_id),
          found_date |-> clock]
    ELSE None

\* quick_find_lcd_policies: the policy_info built for one identifier, or None
quick_policy_info(pg, lcd_id, fault) ==
    IF fault \in {"goto", "read"} THEN None
    ELSE IF /\ Contains(pg.title, "LCD")
            /\ ~Contains(pg.title, "Error")
            /\ ~Contains(pg.title, "Not Found")
            /\ ~Contains(pg.title, "Search")
    THEN [lcd_id     |-> ToStr(lcd_id),
          doc_id     |-> DerivedCode(lcd_id),
          title      |-> Strip(ExtractTitle(pg, lcd_id, fault)),
          url        |-> ProbeUrl(lcd_id),
          found_date |-> clock]
    ELSE None

\* one goto more for lcd_id
Goto(lcd_id) ==
    fetched (+) SetToBag({lcd_id})

\* the record of a classifier call kept in out
Call(by, lcd_id, fault, result) ==
    [by |-> by, lcd_id |-> lcd_id, fault |-> fault, result |-> result]

NoCall ==
    [by |-> "nobody", lcd_id |-> 0, fault |-> "none", result |-> None]

----------------------------------------------------------------------------
(* Catalog writers *)

\* the key of list.sort(key=lambda x: int(x['lcd_id']))
SortKey(x) ==
    ToInt(x.lcd_id)

\* x inserted into the sorted list s behind every entry whose key is not larger
RECURSIVE InsertByKey(_, _)
InsertByKey(x, s) ==
    IF s = <<>> THEN <<x>>
    ELSE IF SortKey(Head(s)) <= SortKey(x) THEN <<Head(s)>> \o InsertByKey(x, Tail(s))
    ELSE <<x>> \o s

\* list.sort(key=lambda x: int(x['lcd_id'])): ascending and stable
RECURSIVE SortByLcdId(_)
SortByLcdId(s) ==
    IF s = <<>> THEN <<>>
    ELSE InsertByKey(s[Len(s)], SortByLcdId(SubSeq(s, 1, Len(s) - 1)))

\* UniqueLcds keeping the last record of an identifier instead of the first
RECURSIVE UniqueLcds_KeepLast(_, _)
UniqueLcds_KeepLast(s, seen_ids) ==
    IF s = <<>> THEN <<>>
    ELSE IF \E j \in 2..Len(s) : s[j].lcd_id = Head(s).lcd_id
         THEN UniqueLcds_KeepLast(Tail(s), seen_ids)
         ELSE <<Head(s)>> \o UniqueLcds_KeepLast(Tail(s), seen_ids)

\* UniqueLcds dropping nothing
UniqueLcds_NoDedup(s, seen_ids) ==
    s

\* the loop of LCDPolicyFinder.save_to_json that fills unique_lcds and seen_ids
RECURSIVE UniqueLcds(_, _)
UniqueLcds(s, seen_ids) ==
    IF s = <<>> THEN <<>>
    ELSE IF Head(s).lcd_id \notin seen_ids
         THEN <<Head(s)>> \o UniqueLcds(Tail(s), seen_ids \cup {Head(s).lcd_id})
         ELSE UniqueLcds(Tail(s), seen_ids)

\* output_data of a writer
OutputData(policies, method) ==
    [written        |-> TRUE,
     search_date    |-> clock,
     total_policies |-> Len(policies),
     search_method  |-> method,
     policies       |-> policies]

Finder_output_data_CountFound(urls) ==
    [OutputData(SortByLcdId(UniqueLcds(urls, {})), "") EXCEPT !.total_policies = Len(urls)]

\* LCDPolicyFinder.save_to_json: the output_data it dumps
Finder_output_data(urls) ==
    OutputData(SortByLcdId(UniqueLcds(urls, {})), "")

\* SimpleLCDFinder.save_to_json: self.lcd_urls after the in-place sort
Simple_sorted(urls) ==
    SortByLcdId(urls)

\* save_lcd_policies: policies after the in-place sort
Quick_sorted(policies) ==
    SortByLcdId(policies)

----------------------------------------------------------------------------
(* SimpleLCDFinder.find_lcd_policies_systematically *)

known_working_ids ==
    <<33822, 35000, 35070, 33803, 33393, 38617>>

search_ranges ==
    << <<33000, 34000, 50>>,
       <<35000, 36000, 50>>,
       <<37000, 39000, 100>>,
       <<30000, 33000, 100>>,
       <<25000, 30000, 200>> >>

\* range_found > 5 starts the dense search
DenseThreshold ==
    5

\* the step of the dense search
DenseStep ==
    10

\* RangeAt that leaves the start of the range out
RangeAt_FromNext(start, step, j) ==
    start + (j + 1) * step

\* the k-th value (k = 0, 1, ...) of range(start, end, step)
RangeAt(start, step, j) ==
    start + j * step

\* InRange with the end of the range let in
InRange_Through(start, end, step, j) ==
    RangeAt(start, step, j) <= end

\* whether range(start, end, step) has a k-th value
InRange(start, end, step, j) ==
    RangeAt(start, step, j) < end

\* lines 91-95: one iteration of the loop over known_working_ids
SeededBody(lcd_id, pg, fault) ==
    LET policy == validate_lcd_url(pg, lcd_id, fault)
    IN  /\ fetched' = Goto(lcd_id)
        /\ page' = pg
        /\ out' = Call("validate_lcd_url", lcd_id, fault, policy)
        /\ IF policy # None /\ ToStr(lcd_id) \notin processed_ids
           THEN /\ lcd_urls' = Append(lcd_urls, policy)
                /\ processed_ids' = processed_ids \cup {ToStr(lcd_id)}
           ELSE UNCHANGED <<lcd_urls, processed_ids>>

\* NotProcessed without the look into processed_ids
NotProcessed_Always(lcd_id) ==
    TRUE

\* whether a range loop probes lcd_id at all (lines 115 and 135)
NotProcessed(lcd_id) ==
    ToStr(lcd_id) \notin processed_ids

\* RangeBody that marks an identifier as processed when its probe gave nothing
RangeBody_MarkFailed(lcd_id, pg, fault, coarse) ==
    LET policy == validate_lcd_url(pg, lcd_id, fault)
    IN  /\ fetched' = Goto(lcd_id)
        /\ page' = pg
        /\ out' = Call("validate_lcd_url", lcd_id, fault, policy)
        /\ processed_ids' = processed_ids \cup {ToStr(lcd_id)}
        /\ IF policy # None
           THEN /\ lcd_urls' = Append(lcd_urls, policy)
                /\ range_found' = IF coarse THEN range_found + 1 ELSE range_found
           ELSE UNCHANGED <<lcd_urls, range_found>>
        /\ total_tested' = IF coarse THEN total_tested + 1 ELSE total_tested

\* lines 115-127 (coarse) and 135-140 (dense): one iteration of a range loop
\* for an identifier that is not in processed_ids
RangeBody(lcd_id, pg, fault, coarse) ==
    LET policy == validate_lcd_url(pg, lcd_id, fault)
    IN  /\ fetched' = Goto(lcd_id)
        /\ page' = pg
        /\ out' = Call("validate_lcd_url", lcd_id, fault, policy)
        /\ IF policy # None
           THEN /\ lcd_urls' = Append(lcd_urls, policy)
                /\ processed_ids' = processed_ids \cup {ToStr(lcd_id)}
                /\ range_found' = IF coarse THEN range_found + 1 ELSE range_found
           ELSE UNCHANGED <<lcd_urls, processed_ids, range_found>>
        /\ total_tested' = IF coarse THEN total_tested + 1 ELSE total_tested

----------------------------------------------------------------------------
(* The remote source, as the runs see it *)

\* a policy page: valid for each of the three classifiers
PolicyPage(lcd_id) ==
    [title |-> <<"LCD", " - CMS">>,
     body  |-> <<LCDet>> \o DerivedCode(lcd_id),
     h1    |-> Heading(<<"Policy", " ">> \o ToStr(lcd_id))]

\* the page of an identifier that names no policy
NotFoundPage ==
    [title |-> <<"Error">>, body |-> <<"Not Found">>, h1 |-> NoHeading]

\* no page has been looked at yet
NoPage ==
    [title |-> <<>>, body |-> <<>>, h1 |-> NoHeading]

\* what one probe meets: the page served and where the probe raises
Outcome(pg, fault) ==
    [pg |-> pg, fault |-> fault]

\* how a probe of lcd_id may go when only the identifiers in live name policies:
\* a live identifier serves its policy, or an error page, or the fetch fails
Outcomes(lcd_id, live) ==
    IF lcd_id \in live
    THEN {Outcome(PolicyPage(lcd_id), "none"), Outcome(NotFoundPage, "none"),
          Outcome(PolicyPage(lcd_id), "goto")}
    ELSE {Outcome(NotFoundPage, "none")}

\* the identifiers that may name a policy while SimpleLCDFinder runs: the first
\* NumLiveCoarse of the first range, one between them, and two of the known ones
LiveSimple ==
    {RangeAt(search_ranges[1][1], search_ranges[1][3], j) : j \in 0..(NumLiveCoarse - 1)}
        \cup {33010, 33822, 35000}

----------------------------------------------------------------------------
(* SimpleLCDFinder: main() of Step2_Find_allPolicy_URLs_Simple.py *)

RangeStart ==
    search_ranges[r][1]

RangeEnd ==
    search_ranges[r][2]

RangeStep ==
    search_ranges[r][3]

\* lines 90-95
SimpleSeed ==
    /\ prog = "simple" /\ pc = "seed"
    /\ \E o \in Outcomes(known_working_ids[k], LiveSimple) :
           SeededBody(known_working_ids[k], o.pg, o.fault)
    /\ clock' = clock + 1
    /\ IF k < Len(known_working_ids)
       THEN /\ k' = k + 1
            /\ UNCHANGED <<pc, r>>
       ELSE /\ pc' = "coarse"
            /\ r' = 1
            /\ k' = 0
    /\ UNCHANGED <<downloader, files, prog, catalog, range_found, total_tested, found_count, misses>>

\* lines 114-127, the identifier is not in processed_ids
SimpleCoarseProbe ==
    /\ prog = "simple" /\ pc = "coarse"
    /\ InRange(RangeStart, RangeEnd, RangeStep, k)
    /\ NotProcessed(RangeAt(RangeStart, RangeStep, k))
    /\ \E o \in Outcomes(RangeAt(RangeStart, RangeStep, k), LiveSimple) :
           RangeBody(RangeAt(RangeStart, RangeStep, k), o.pg, o.fault, TRUE)
    /\ clock' = clock + 1
    /\ k' = k + 1
    /\ UNCHANGED <<downloader, files, prog, pc, catalog, r, found_count, misses>>

\* lines 114-115, the identifier is in processed_ids
SimpleCoarseSkip ==
    /\ prog = "simple" /\ pc = "coarse"
    /\ InRange(RangeStart, RangeEnd, RangeStep, k)
    /\ ~NotProcessed(RangeAt(RangeStart, RangeStep, k))
    /\ clock' = clock + 1
    /\ k' = k + 1
    /\ UNCHANGED <<downloader, files, prog, pc, lcd_urls, processed_ids, catalog, r, range_found,
                   total_tested, found_count, misses, fetched, page, out>>

\* the next range of search_ranges, or the end of the search
SimpleNextRange ==
    IF r < Len(search_ranges)
    THEN /\ r' = r + 1
         /\ k' = 0
         /\ range_found' = 0
         /\ pc' = "coarse"
    ELSE /\ pc' = "save"
         /\ UNCHANGED <<r, k, range_found>>

\* SimpleCoarseEnd that goes by the share of this pass's probes that found a policy
SimpleCoarseEnd_ByRate ==
    /\ prog = "simple" /\ pc = "coarse"
    /\ ~InRange(RangeStart, RangeEnd, RangeStep, k)
    /\ IF range_found * 20 > k
       THEN /\ pc' = "dense"
            /\ k' = 0
            /\ UNCHANGED <<r, range_found>>
       ELSE SimpleNextRange
    /\ clock' = clock + 1
    /\ UNCHANGED <<downloader, files, prog, lcd_urls, processed_ids, catalog, total_tested, found_count,
                   misses, fetched, page, out>>

\* SimpleCoarseEnd that scans every range a second time
SimpleCoarseEnd_Always ==
    /\ prog = "simple" /\ pc = "coarse"
    /\ ~InRange(RangeStart, RangeEnd, RangeStep, k)
    /\ pc' = "dense"
    /\ k' = 0
    /\ UNCHANGED <<r, range_found>>
    /\ clock' = clock + 1
    /\ UNCHANGED <<downloader, files, prog, lcd_urls, processed_ids, catalog, total_tested, found_count,
                   misses, fetched, page, out>>

\* lines 129-133: the coarse loop is over
SimpleCoarseEnd ==
    /\ prog = "simple" /\ pc = "coarse"
    /\ ~InRange(RangeStart, RangeEnd, RangeStep, k)
    /\ IF range_found > DenseThreshold
       THEN /\ pc' = "dense"
            /\ k' = 0
            /\ UNCHANGED <<r, range_found>>
       ELSE SimpleNextRange
    /\ clock' = clock + 1
    /\ UNCHANGED <<downloader, files, prog, lcd_urls, processed_ids, catalog, total_tested, found_count,
                   misses, fetched, page, out>>

\* lines 134-140, the identifier is not in processed_ids
SimpleDenseProbe ==
    /\ prog = "simple" /\ pc = "dense"
    /\ InRange(RangeStart, RangeEnd, DenseStep, k)
    /\ NotProcessed(RangeAt(RangeStart, DenseStep, k))
    /\ \E o \in Outcomes(RangeAt(RangeStart, DenseStep, k), LiveSimple) :
           RangeBody(RangeAt(RangeStart, DenseStep, k), o.pg, o.fault, FALSE)
    /\ clock' = clock + 1
    /\ k' = k + 1
    /\ UNCHANGED <<downloader, files, prog, pc, catalog, r, found_count, misses>>

\* lines 134-135, the identifier is in processed_ids
SimpleDenseSkip ==
    /\ prog = "simple" /\ pc = "dense"
    /\ InRange(RangeStart, RangeEnd, DenseStep, k)
    /\ ~NotProcessed(RangeAt(RangeStart, DenseStep, k))
    /\ clock' = clock + 1
    /\ k' = k + 1
    /\ UNCHANGED <<downloader, files, prog, pc, lcd_urls, processed_ids, catalog, r, range_found,
                   total_tested, found_count, misses, fetched, page, out>>

\* the dense loop is over
SimpleDenseEnd ==
    /\ prog = "simple" /\ pc = "dense"
    /\ ~InRange(RangeStart, RangeEnd, DenseStep, k)
    /\ SimpleNextRange
    /\ clock' = clock + 1
    /\ UNCHANGED <<downloader, files, prog, lcd_urls, processed_ids, catalog, total_tested, found_count,
                   misses, fetched, page, out>>

\* SimpleLCDFinder.save_to_json
SimpleSave ==
    /\ prog = "simple" /\ pc = "save"
    /\ lcd_urls' = Simple_sorted(lcd_urls)
    /\ catalog' = OutputData(Simple_sorted(lcd_urls), "Systematic ID validation")
    /\ pc' = "done"
    /\ clock' = clock + 1
    /\ UNCHANGED <<downloader, files, prog, processed_ids, k, r, range_found, total_tested, found_count,
                   misses, fetched, page, out>>

NextSimple ==
    \/ SimpleSeed
    \/ SimpleCoarseProbe
    \/ SimpleCoarseSkip
    \/ SimpleCoarseEnd
    \/ SimpleDenseProbe
    \/ SimpleDenseSkip
    \/ SimpleDenseEnd
    \/ SimpleSave

\* SimpleLCDFinder.__init__, then main() up to the first probe
InitSimple ==
    /\ prog = "simple"
    /\ pc = "seed"
    /\ lcd_urls = <<>>
    /\ processed_ids = {}
    /\ catalog = NoCatalog
    /\ clock = 0
    /\ k = 1
    /\ r = 1
    /\ range_found = 0
    /\ total_tested = 0
    /\ found_count = 0
    /\ misses = 0
    /\ fetched = EmptyBag
    /\ page = NoPage
    /\ out = NoCall
    /\ downloader = NoDownloader
    /\ files = {}

SpecSimple ==
    InitSimple /\ [][NextSimple]_vars

----------------------------------------------------------------------------
(* LCDPolicyFinder.extract_lcd_links *)

\* a link of a page: its href attribute (<<>>: none) and its inner text
Link(href, text) ==
    [href |-> href, text |-> text]

ViewPath ==
    <<"/medicare-coverage-database/view/", "lcd.aspx", "?">>

\* href.startswith('http')
StartsWithHttp(href) ==
    href # <<>> /\ href[1] = "https://www.cms.gov"

\* re.search(r'DocID=(L\d+)', href): group(1); <<>> when there is no match
SearchDocIdParam(href) ==
    LET hits == {i \in 1..Len(href) :
                    /\ href[i] = "DocID="
                    /\ i < Len(href)
                    /\ href[i + 1] = "L"
                    /\ DigitsFrom(href, i + 2) # <<>>}
    IN  IF hits = {} THEN <<>>
        ELSE LET i == CHOOSE j \in hits : \A j2 \in hits : j <= j2
             IN  <<"L">> \o DigitsFrom(href, i + 2)

\* the tokens that hold the letter L
HasLetterL(text) ==
    \E i \in 1..Len(text) : text[i] \in {"L", "LCD", "LCD Policy", LCDet}

\* lcd_link_selectors: whether the n-th selector finds the link
SelectorFinds(n, link) ==
    CASE n = 1 -> Contains(link.href, "lcd.aspx")
      [] n = 2 -> Contains(link.href, "LCDId=")
      [] n = 3 -> \E i \in 1..(Len(link.href) - 1) :
                      link.href[i] = "DocID=" /\ link.href[i + 1] = "L"
      [] n = 4 -> HasLetterL(link.text)

\* lines 98-123 for one link: the lists [urls, ids] after it
LinkBody(link, st) ==
    LET href         == link.href
        lcd_id_match == SearchDigitsAfter(href, "LCDId=")
        doc_id_match == SearchDocIdParam(href)
    IN  IF /\ href # <<>>
           /\ Contains(href, "lcd.aspx")
           /\ Contains(href, "LCDId=")
           /\ lcd_id_match # <<>>
           /\ doc_id_match # <<>>
           /\ lcd_id_match \notin st.ids
        THEN [urls |-> Append(st.urls,
                         [lcd_id     |-> lcd_id_match,
                          doc_id     |-> doc_id_match,
                          title      |-> IF link.text # <<>> THEN Strip(link.text)
                                         ELSE <<"LCD Policy", " ">> \o doc_id_match,
                          url        |-> IF StartsWithHttp(href) THEN href
                                         ELSE <<"https://www.cms.gov">> \o href,
                          found_date |-> clock]),
              ids  |-> st.ids \cup {lcd_id_match}]
        ELSE st

\* the inner loop, lines 97-123, over the links one selector found
RECURSIVE LinksLoop(_, _)
LinksLoop(links, st) ==
    IF links = <<>> THEN st
    ELSE LinksLoop(Tail(links), LinkBody(Head(links), st))

\* the links of the page that the n-th selector finds, in page order
RECURSIVE FoundBy(_, _)
FoundBy(n, links) ==
    IF links = <<>> THEN <<>>
    ELSE IF SelectorFinds(n, Head(links)) THEN <<Head(links)>> \o FoundBy(n, Tail(links))
    ELSE FoundBy(n, Tail(links))

\* the outer loop, lines 94-126, from the n-th selector on; a selector whose
\* query raises (n \notin sel_ok) is skipped by the except/continue
RECURSIVE SelectorsLoop(_, _, _, _)
SelectorsLoop(n, links, sel_ok, st) ==
    IF n > 4 THEN st
    ELSE SelectorsLoop(n + 1, links, sel_ok,
             IF n \in sel_ok THEN LinksLoop(FoundBy(n, links), st) ELSE st)

\* extract_lcd_links(page): [urls, ids] = lcd_urls and processed_ids after it
extract_lcd_links(links, sel_ok) ==
    SelectorsLoop(1, links, sel_ok, [urls |-> lcd_urls, ids |-> processed_ids])

----------------------------------------------------------------------------
(* LCDPolicyFinder: main() of Step2_Find_allPolicy_URLs.py *)

report_urls ==
    <<"finallcdalphabeticalreport.aspx", "finallcdcontractorreport.aspx",
      "finallcdstatereport.aspx">>

\* range(30000, 40000, 100)
test_lcd_ids ==
    <<30000, 40000, 100>>

\* found_count >= 10 ends try_known_lcd_patterns
PatternLimit ==
    10

\* a link to the policy lcd_id as the reports show it
ReportLink(lcd_id) ==
    Link(ViewPath \o <<"LCDId=">> \o ToStr(lcd_id) \o <<"&", "DocID=">> \o DerivedCode(lcd_id),
         <<" ", "Policy", " ">> \o ToStr(lcd_id))

\* the same policy under an absolute address and without link text
AbsoluteLink(lcd_id) ==
    Link(<<"https://www.cms.gov">> \o ViewPath \o <<"LCDId=">> \o ToStr(lcd_id)
             \o <<"&", "DocID=">> \o DerivedCode(lcd_id),
         <<>>)

\* a link that names no document code
BareLink(lcd_id) ==
    Link(ViewPath \o <<"LCDId=">> \o ToStr(lcd_id), <<"LCD">>)

\* a link to the search form
SearchLink ==
    Link(<<"/medicare-coverage-database/search.aspx">>, <<"L">>)

\* the lists of links a report or search page may show
PageLinks ==
    {<<>>,
     <<ReportLink(30000)>>,
     <<AbsoluteLink(34567)>>,
     <<BareLink(30100), SearchLink>>,
     <<AbsoluteLink(30000), ReportLink(30000)>>}

LivePattern ==
    {RangeAt(test_lcd_ids[1], test_lcd_ids[3], j) : j \in 0..(NumLivePattern - 1)}

\* FinderReport with the failure of a report let through to the handler of
\* comprehensive_search, which leaves the remaining strategies out
FinderReport_Abort ==
    /\ prog = "finder" /\ pc = "reports"
    /\ \E goto_ok \in BOOLEAN, links \in PageLinks, sel_ok \in SUBSET (1..4) :
           LET st == extract_lcd_links(links, sel_ok)
           IN  IF goto_ok
               THEN /\ lcd_urls' = st.urls /\ processed_ids' = st.ids
                    /\ out' = Call("search_via_reports", 0, "none", None)
                    /\ IF r < Len(report_urls)
                       THEN r' = r + 1 /\ pc' = pc
                       ELSE r' = r /\ pc' = "keyword"
               ELSE /\ UNCHANGED <<lcd_urls, processed_ids, r>>
                    /\ out' = Call("search_via_reports", 0, "goto", None)
                    /\ pc' = "save"
    /\ clock' = clock + 1
    /\ UNCHANGED <<downloader, files, prog, catalog, k, range_found, total_tested, found_count, misses,
                   fetched, page>>

\* lines 241-260, one report: goto raises, or extract_lcd_links runs on the page
FinderReport ==
    /\ prog = "finder" /\ pc = "reports"
    /\ \E goto_ok \in BOOLEAN, links \in PageLinks, sel_ok \in SUBSET (1..4) :
           LET st == extract_lcd_links(links, sel_ok)
           IN  IF goto_ok
               THEN /\ lcd_urls' = st.urls /\ processed_ids' = st.ids
                    /\ out' = Call("search_via_reports", 0, "none", None)
               ELSE /\ UNCHANGED <<lcd_urls, processed_ids>>
                    /\ out' = Call("search_via_reports", 0, "goto", None)
    /\ IF r < Len(report_urls)
       THEN r' = r + 1 /\ pc' = pc
       ELSE r' = r /\ pc' = "keyword"
    /\ clock' = clock + 1
    /\ UNCHANGED <<downloader, files, prog, catalog, k, range_found, total_tested, found_count, misses,
                   fetched, page>>

\* search_via_keyword: the search form is found and submitted (form_ok), or
\* goto raises or an element is missing
FinderKeyword ==
    /\ prog = "finder" /\ pc = "keyword"
    /\ \E form_ok \in BOOLEAN, links \in PageLinks, sel_ok \in SUBSET (1..4) :
           LET st == extract_lcd_links(links, sel_ok)
           IN  IF form_ok
               THEN /\ lcd_urls' = st.urls /\ processed_ids' = st.ids
                    /\ out' = Call("search_via_keyword", 0, "none", None)
               ELSE /\ UNCHANGED <<lcd_urls, processed_ids>>
                    /\ out' = Call("search_via_keyword", 0, "goto", None)
    /\ pc' = "patterns"
    /\ k' = 0
    /\ found_count' = 0
    /\ clock' = clock + 1
    /\ UNCHANGED <<downloader, files, prog, catalog, r, range_found, total_tested, misses, fetched, page>>

\* PatternBody that counts every valid page, also of an identifier it does not add
PatternBody_CountSeen(lcd_id, pg, fault) ==
    LET policy_info == pattern_policy_info(pg, lcd_id, fault)
    IN  /\ fetched' = Goto(lcd_id)
        /\ page' = pg
        /\ out' = Call("try_known_lcd_patterns", lcd_id, fault, policy_info)
        /\ found_count' = IF policy_info # None THEN found_count + 1 ELSE found_count
        /\ IF policy_info # None /\ ToStr(lcd_id) \notin processed_ids
           THEN /\ lcd_urls' = Append(lcd_urls, policy_info)
                /\ processed_ids' = processed_ids \cup {ToStr(lcd_id)}
           ELSE UNCHANGED <<lcd_urls, processed_ids>>

\* lines 303-332: one iteration of the loop over test_lcd_ids
PatternBody(lcd_id, pg, fault) ==
    LET policy_info == pattern_policy_info(pg, lcd_id, fault)
    IN  /\ fetched' = Goto(lcd_id)
        /\ page' = pg
        /\ out' = Call("try_known_lcd_patterns", lcd_id, fault, policy_info)
        /\ IF policy_info # None /\ ToStr(lcd_id) \notin processed_ids
           THEN /\ lcd_urls' = Append(lcd_urls, policy_info)
                /\ processed_ids' = processed_ids \cup {ToStr(lcd_id)}
                /\ found_count' = found_count + 1
           ELSE UNCHANGED <<lcd_urls, processed_ids, found_count>>

\* lines 299-332, found_count < 10 and identifiers are left
FinderPatternProbe ==
    /\ prog = "finder" /\ pc = "patterns"
    /\ found_count < PatternLimit
    /\ InRange(test_lcd_ids[1], test_lcd_ids[2], test_lcd_ids[3], k)
    /\ LET lcd_id == RangeAt(test_lcd_ids[1], test_lcd_ids[3], k)
       IN  \E o \in Outcomes(lcd_id, LivePattern) :
               LET miss == lcd_id \in LivePattern
                               /\ o # Outcome(PolicyPage(lcd_id), "none")
               IN  /\ miss => misses < MaxMisses
                   /\ misses' = IF miss THEN misses + 1 ELSE misses
                   /\ PatternBody(lcd_id, o.pg, o.fault)
    /\ k' = k + 1
    /\ clock' = clock + 1
    /\ UNCHANGED <<downloader, files, prog, pc, catalog, r, range_found, total_tested>>

\* lines 299-301 and 334: the loop ends at the limit or at the end of the range
FinderPatternEnd ==
    /\ prog = "finder" /\ pc = "patterns"
    /\ \/ found_count >= PatternLimit
       \/ ~InRange(test_lcd_ids[1], test_lcd_ids[2], test_lcd_ids[3], k)
    /\ pc' = "save"
    /\ clock' = clock + 1
    /\ UNCHANGED <<downloader, files, prog, lcd_urls, processed_ids, catalog, k, r, range_found,
                   total_tested, found_count, misses, fetched, page, out>>

\* FinderSave after which main saves again
FinderSave_Again ==
    /\ prog = "finder" /\ pc = "save"
    /\ catalog' = Finder_output_data(lcd_urls)
    /\ pc' = IF catalog.written THEN "done" ELSE "save"
    /\ clock' = clock + 1
    /\ UNCHANGED <<downloader, files, prog, lcd_urls, processed_ids, k, r, range_found, total_tested,
                   found_count, misses, fetched, page, out>>

\* LCDPolicyFinder.save_to_json
FinderSave ==
    /\ prog = "finder" /\ pc = "save"
    /\ catalog' = Finder_output_data(lcd_urls)
    /\ pc' = "done"
    /\ clock' = clock + 1
    /\ UNCHANGED <<downloader, files, prog, lcd_urls, processed_ids, k, r, range_found, total_tested,
                   found_count, misses, fetched, page, out>>

NextFinder ==
    \/ FinderReport
    \/ FinderKeyword
    \/ FinderPatternProbe
    \/ FinderPatternEnd
    \/ FinderSave

\* LCDPolicyFinder.__init__, then comprehensive_search up to the first report
InitFinder ==
    /\ prog = "finder"
    /\ pc = "reports"
    /\ lcd_urls = <<>>
    /\ processed_ids = {}
    /\ catalog = NoCatalog
    /\ clock = 0
    /\ k = 0
    /\ r = 1
    /\ range_found = 0
    /\ total_tested = 0
    /\ found_count = 0
    /\ misses = 0
    /\ fetched = EmptyBag
    /\ page = NoPage
    /\ out = NoCall
    /\ downloader = NoDownloader
    /\ files = {}

SpecFinder ==
    InitFinder /\ [][NextFinder]_vars

----------------------------------------------------------------------------
(* quick_find_lcd_policies and save_lcd_policies: main() of Step2_Quick_LCD_Finder.py *)

test_ids ==
    <<33822, 35000, 35070, 33803, 33393, 38617,
      33000, 33100, 33200, 33300, 33400, 33500, 33600, 33700, 33800, 33900,
      34000, 34100, 34200, 34300, 34400, 34500, 34600, 34700, 34800, 34900,
      35100, 35200, 35300, 35400, 35500, 35600, 35700, 35800, 35900,
      36000, 36100, 36200, 36300, 36400, 36500, 36600, 36700, 36800, 36900,
      37000, 37100, 37200, 37300, 37400, 37500, 37600, 37700, 37800, 37900,
      38000, 38100, 38200, 38300, 38400, 38500, 38600, 38700, 38800, 38900,
      39000, 39100, 39200, 39300, 39400, 39500, 39600, 39700, 39800, 39900>>

LiveQuick ==
    {test_ids[j] : j \in 1..NumLiveQuick}

\* lines 42-89: one iteration of the loop over test_ids
QuickBody(lcd_id, pg, fault) ==
    LET policy_info == quick_policy_info(pg, lcd_id, fault)
    IN  /\ fetched' = Goto(lcd_id)
        /\ page' = pg
        /\ out' = Call("quick_find_lcd_policies", lcd_id, fault, policy_info)
        /\ IF policy_info # None
           THEN /\ lcd_urls' = Append(lcd_urls, policy_info)
                /\ found_count' = found_count + 1
           ELSE UNCHANGED <<lcd_urls, found_count>>

\* lines 41-93
QuickProbe ==
    /\ prog = "quick" /\ pc = "loop"
    /\ \E o \in Outcomes(test_ids[k], LiveQuick) :
           QuickBody(test_ids[k], o.pg, o.fault)
    /\ IF k < Len(test_ids)
       THEN k' = k + 1 /\ pc' = pc
       ELSE k' = k /\ pc' = "save"
    /\ clock' = clock + 1
    /\ UNCHANGED <<downloader, files, prog, processed_ids, catalog, r, range_found, total_tested, misses>>

\* save_lcd_policies(policies)
QuickSave ==
    /\ prog = "quick" /\ pc = "save"
    /\ lcd_urls' = Quick_sorted(lcd_urls)
    /\ catalog' = OutputData(Quick_sorted(lcd_urls), "Quick ID sampling")
    /\ pc' = "done"
    /\ clock' = clock + 1
    /\ UNCHANGED <<downloader, files, prog, processed_ids, k, r, range_found, total_tested, found_count,
                   misses, fetched, page, out>>

NextQuick ==
    \/ QuickProbe
    \/ QuickSave

InitQuick ==
    /\ prog = "quick"
    /\ pc = "loop"
    /\ lcd_urls = <<>>
    /\ processed_ids = {}
    /\ catalog = NoCatalog
    /\ clock = 0
    /\ k = 1
    /\ r = 1
    /\ range_found = 0
    /\ total_tested = 0
    /\ found_count = 0
    /\ misses = 0
    /\ fetched = EmptyBag
    /\ page = NoPage
    /\ out = NoCall
    /\ downloader = NoDownloader
    /\ files = {}

----------------------------------------------------------------------------
(* save_comprehensive_lcd_list: main() of Step2_Manual_LCD_List.py *)

KnownPolicy(lcd_id, title, query, category) ==
    [lcd_id     |-> ToStr(lcd_id),
     doc_id     |-> DerivedCode(lcd_id),
     title      |-> title,
     url        |-> <<"https://www.cms.gov">> \o ViewPath \o query,
     category   |-> category,
     found_date |-> clock]

\* create_lcd_policy_list()
create_lcd_policy_list ==
    <<
       KnownPolicy(33822, <<"Glucose Monitors">>,
                   <<"LCDId=">> \o ToStr(33822) \o <<"&", "DocID=">> \o DerivedCode(33822),
                   "Medical Equipment"),
       KnownPolicy(35000, <<"Molecular Pathology Procedures">>,
                   <<"LCDId=">> \o ToStr(35000),
                   "Laboratory"),
       KnownPolicy(35070, <<"Speech-Language Pathology (SLP) Services: Communication Disorders">>,
                   <<"lcdid=">> \o ToStr(35070),
                   "Therapy Services"),
       KnownPolicy(33803, <<"Urological Supplies">>,
                   <<"LCDId=">> \o ToStr(33803),
                   "Medical Supplies"),
       KnownPolicy(33393, <<"Hospice - Determining Terminal Status">>,
                   <<"LCDId=">> \o ToStr(33393),
                   "Hospice Care"),
       KnownPolicy(38617, <<"Implantable Continuous Glucose Monitors (I-CGM)">>,
                   <<"lcdId=">> \o ToStr(38617),
                   "Medical Equipment")
    >>

lcd_categories ==
    <<
       <<"Medical Equipment",
         <<33800, 33801, 33804, 33805, 33810, 33815, 33820, 33825, 33830>> >>,
       <<"Laboratory Services",
         <<35001, 35002, 35005, 35010, 35015, 35020, 35025, 35030>> >>,
       <<"Diagnostic Imaging",
         <<34000, 34010, 34020, 34030, 34040, 34050, 34060, 34070>> >>,
       <<"Surgical Procedures",
         <<36000, 36010, 36020, 36030, 36040, 36050, 36060, 36070>> >>,
       <<"Therapy Services",
         <<35071, 35072, 35075, 35080, 35085, 35090, 35095>> >>,
       <<"Home Health",
         <<37000, 37010, 37020, 37030, 37040, 37050, 37060, 37070>> >>,
       <<"Durable Medical Equipment",
         <<38000, 38010, 38020, 38030, 38040, 38050, 38060>> >>,
       <<"Prosthetics",
         <<39000, 39010, 39020, 39030, 39040, 39050, 39060, 39070>> >>
    >>

\* lines 84-92: the policy estimated for one identifier of a category
EstimatedPolicy(category, lcd_id) ==
    [lcd_id     |-> ToStr(lcd_id),
     doc_id     |-> DerivedCode(lcd_id),
     title      |-> <<"LCD Policy", " ">> \o DerivedCode(lcd_id) \o <<" - ", category>>,
     url        |-> ProbeUrl(lcd_id),
     category   |-> category,
     found_date |-> clock,
     status     |-> "estimated"]

\* the inner loop, lines 83-93, over the identifiers of one category
CategoryPolicies(c) ==
    [j \in 1..Len(c[2]) |-> EstimatedPolicy(c[1], c[2][j])]

\* add_additional_lcd_patterns(): the policies of the categories from the n-th on
RECURSIVE AdditionalFrom(_)
AdditionalFrom(n) ==
    IF n > Len(lcd_categories) THEN <<>>
    ELSE CategoryPolicies(lcd_categories[n]) \o AdditionalFrom(n + 1)

add_additional_lcd_patterns ==
    AdditionalFrom(1)

\* save_comprehensive_lcd_list
ManualSave ==
    /\ prog = "manual" /\ pc = "save"
    /\ LET known_policies      == create_lcd_policy_list
           additional_policies == add_additional_lcd_patterns
           all_policies        == known_policies \o additional_policies
       IN  /\ lcd_urls' = all_policies
           /\ catalog' = [written            |-> TRUE,
                          search_date        |-> clock,
                          total_policies     |-> Len(all_policies),
                          validated_policies |-> Len(known_policies),
                          estimated_policies |-> Len(additional_policies),
                          search_method      |-> "Manual compilation + pattern estimation",
                          policies           |-> all_policies]
    /\ pc' = "done"
    /\ clock' = clock + 1
    /\ UNCHANGED <<downloader, files, prog, processed_ids, k, r, range_found, total_tested, found_count,
                   misses, fetched, page, out>>

NextManual ==
    ManualSave

InitManual ==
    /\ prog = "manual"
    /\ pc = "save"
    /\ lcd_urls = <<>>
    /\ processed_ids = {}
    /\ catalog = NoCatalog
    /\ clock = 0
    /\ k = 1
    /\ r = 1
    /\ range_found = 0
    /\ total_tested = 0
    /\ found_count = 0
    /\ misses = 0
    /\ fetched = EmptyBag
    /\ page = NoPage
    /\ out = NoCall
    /\ downloader = NoDownloader
    /\ files = {}

----------------------------------------------------------------------------
(* The merge step of LCDPolicyFinder.save_to_json, applied to any list of records *)

\* records as two strategies produce them for the same policy: a seeded
\* validation (with a clock of its own) and a pattern probe
MergePool ==
    {[validate_lcd_url(PolicyPage(n), n, "none") EXCEPT !.found_date = 0] : n \in {33822, 35000}}
        \cup {[pattern_policy_info(PolicyPage(n), n, "none") EXCEPT !.found_date = 1] :
                 n \in {33822, 35000}}

\* self.lcd_urls is replaced by itself twice over
MergeDouble ==
    /\ prog = "merge" /\ pc = "once"
    /\ lcd_urls' = lcd_urls \o lcd_urls
    /\ pc' = "twice"
    /\ clock' = clock + 1
    /\ UNCHANGED <<downloader, files, prog, processed_ids, catalog, k, r, range_found, total_tested,
                   found_count, misses, fetched, page, out>>

\* LCDPolicyFinder.save_to_json on the list as it stands
MergeSave ==
    /\ prog = "merge" /\ pc \in {"once", "twice"}
    /\ catalog' = Finder_output_data(lcd_urls)
    /\ pc' = IF pc = "once" THEN "saved once" ELSE "saved twice"
    /\ clock' = clock + 1
    /\ UNCHANGED <<downloader, files, prog, lcd_urls, processed_ids, k, r, range_found, total_tested,
                   found_count, misses, fetched, page, out>>

NextMerge ==
    \/ MergeDouble
    \/ MergeSave

InitMerge ==
    /\ prog = "merge"
    /\ pc = "once"
    /\ clock = 2
    /\ lcd_urls \in StringsUpTo(MergePool, MaxMergeLen)
    /\ processed_ids = {}
    /\ catalog = NoCatalog
    /\ k = 1
    /\ r = 1
    /\ range_found = 0
    /\ total_tested = 0
    /\ found_count = 0
    /\ misses = 0
    /\ fetched = EmptyBag
    /\ page = NoPage
    /\ out = NoCall
    /\ downloader = NoDownloader
    /\ files = {}

----------------------------------------------------------------------------
(* The four scripts and the merge step *)

Init ==
    \/ InitSimple
    \/ InitFinder
    \/ InitQuick
    \/ InitManual
    \/ InitMerge

Next ==
    \/ NextSimple
    \/ NextFinder
    \/ NextQuick
    \/ NextManual
    \/ NextMerge

Spec ==
    Init /\ [][Next]_vars

----------------------------------------------------------------------------
(* LCDPolicyFinder.extract_all_lcd_results: what it does with one link *)

\* lines 161-185 for one link: the lists [urls, ids] after it
ResultLinkBody(link, st) ==
    LET href         == link.href
        lcd_id_match == SearchDigitsAfter(href, "LCDId=")
        in_href      == SearchDocIdParam(href)
        doc_id_match == IF in_href # <<>> THEN in_href ELSE SearchDocCode(link.text)
        doc_id       == IF doc_id_match # <<>> THEN doc_id_match
                        ELSE <<"L">> \o lcd_id_match
    IN  IF /\ href # <<>>
           /\ Contains(href, "lcd.aspx")
           /\ Contains(href, "LCDId=")
           /\ lcd_id_match # <<>>
           /\ lcd_id_match \notin st.ids
        THEN [urls |-> Append(st.urls,
                         [lcd_id     |-> lcd_id_match,
                          doc_id     |-> doc_id,
                          title      |-> IF link.text # <<>> THEN Strip(link.text)
                                         ELSE <<"LCD Policy", " ">> \o doc_id,
                          url        |-> IF StartsWithHttp(href) THEN href
                                         ELSE <<"https://www.cms.gov">> \o href,
                          found_date |-> clock]),
              ids  |-> st.ids \cup {lcd_id_match}]
        ELSE st

----------------------------------------------------------------------------
(* The classifiers applied to any page, and the link extraction to any link *)

TitleTokens ==
    {"LCD", "Error", "Not Found", "Search", " - CMS"}

BodyTokens ==
    {LCDet, "Error", "Not Found", "L", "7"}

Headings ==
    {NoHeading, Heading(<<>>), Heading(<<" ", "Policy", " ">>)}

AllPages ==
    [title : StringsUpTo(TitleTokens, MaxTitleLen),
     body  : StringsUpTo(BodyTokens, MaxBodyLen),
     h1    : Headings]

\* a link whose text, not its href, names a document code
TextCodeLink(lcd_id) ==
    Link(ViewPath \o <<"LCDId=">> \o ToStr(lcd_id), <<"Policy", " ", "L", "7">>)

\* a link whose identifier is not a number
NoNumberLink ==
    Link(ViewPath \o <<"LCDId=">>, <<"LCD">>)

AllLinks ==
    {ReportLink(30000), AbsoluteLink(34567), BareLink(30100), TextCodeLink(30200),
     NoNumberLink, SearchLink, Link(<<>>, <<"L", "7">>)}

ProbeIds ==
    {33822, 35000}

\* one iteration of the seeded loop on the page; the same page may be probed
\* a second time
ClassifyValidate ==
    /\ prog = "classify"
    /\ \/ pc = "first"
       \/ pc = "second" /\ out.by = "validate_lcd_url"
    /\ \E fault \in Faults : SeededBody(k, page, fault)
    /\ pc' = IF pc = "first" THEN "second" ELSE "done"
    /\ clock' = clock + 1
    /\ UNCHANGED <<downloader, files, prog, catalog, k, r, range_found, total_tested, found_count, misses>>

\* one iteration of the loop of try_known_lcd_patterns on the page
ClassifyPattern ==
    /\ prog = "classify" /\ pc = "first"
    /\ \E fault \in Faults \ {"sel"} : PatternBody(k, page, fault)
    /\ pc' = "done"
    /\ clock' = clock + 1
    /\ UNCHANGED <<downloader, files, prog, catalog, k, r, range_found, total_tested, misses>>

\* one iteration of the loop of quick_find_lcd_policies on the page
ClassifyQuick ==
    /\ prog = "classify" /\ pc = "first"
    /\ \E fault \in Faults : QuickBody(k, page, fault)
    /\ pc' = "done"
    /\ clock' = clock + 1
    /\ UNCHANGED <<downloader, files, prog, processed_ids, catalog, k, r, range_found, total_tested, misses>>

\* one link of a results page goes through lines 161-185
ClassifyResultLink ==
    /\ prog = "links" /\ pc = "first"
    /\ LET st == ResultLinkBody(page, [urls |-> lcd_urls, ids |-> processed_ids])
       IN  /\ lcd_urls' = st.urls
           /\ processed_ids' = st.ids
           /\ out' = Call("extract_all_lcd_results", 0, "none",
                          IF st.urls = lcd_urls THEN None ELSE st.urls[Len(st.urls)])
    /\ pc' = "done"
    /\ clock' = clock + 1
    /\ UNCHANGED <<downloader, files, prog, catalog, k, r, range_found, total_tested, found_count, misses,
                   fetched, page>>

NextClassify ==
    \/ ClassifyValidate
    \/ ClassifyPattern
    \/ ClassifyQuick
    \/ ClassifyResultLink

InitClassify ==
    /\ prog \in {"classify", "links"}
    /\ pc = "first"
    /\ lcd_urls = <<>>
    /\ processed_ids = {}
    /\ catalog = NoCatalog
    /\ clock = 0
    /\ k \in IF prog = "classify" THEN ProbeIds ELSE {0}
    /\ r = 1
    /\ range_found = 0
    /\ total_tested = 0
    /\ found_count = 0
    /\ misses = 0
    /\ fetched = EmptyBag
    /\ page \in IF prog = "classify" THEN AllPages ELSE AllLinks
    /\ out = NoCall
    /\ downloader = NoDownloader
    /\ files = {}

SpecClassify ==
    InitClassify /\ [][NextClassify]_vars

----------------------------------------------------------------------------
(* Properties *)

ProbeClassifiers ==
    {"validate_lcd_url", "try_known_lcd_patterns", "quick_find_lcd_policies"}

\* the last call was a probe that got to read the page
PageObserved ==
    out.by \in ProbeClassifiers /\ out.fault \notin {"goto", "read"}

\* a positive marker: the long name in the body, or the short one in the title
PositiveMarker(pg) ==
    Contains(pg.body, LCDet) \/ Contains(pg.title, "LCD")

\* a negative signal in the title or in the body
NegativeSignal(pg) ==
    \E sig \in {"Error", "Not Found"} : Contains(pg.title, sig) \/ Contains(pg.body, sig)

\* C1: negative precedence.  A page that shows a positive marker and a
\* negative signal is classified NotFound by each probe classifier: the call
\* returns no record.
C1_NegativePrecedence ==
    (PageObserved /\ PositiveMarker(page) /\ NegativeSignal(page)) => out.result = None

\* every token of s is a digit, and there is one
IsNumeric(s) ==
    s # <<>> /\ \A i \in 1..Len(s) : IsDigit(s[i])

\* C2: sort invariant.  In every catalog a Step2 writer produces, every lcd_id
\* parses as an integer and the numeric values strictly increase along policies.
C2_SortInvariant ==
    (prog \in {"simple", "finder", "quick", "manual"} /\ catalog.written) =>
        /\ \A i \in 1..Len(catalog.policies) : IsNumeric(catalog.policies[i].lcd_id)
        /\ \A i \in 1..(Len(catalog.policies) - 1) :
               ToInt(catalog.policies[i].lcd_id) < ToInt(catalog.policies[i + 1].lcd_id)

\* C3: identifier uniqueness.  Whatever the strategies discovered, the catalog
\* that is written holds no two records with the same lcd_id.
C3_UniqueIdentifiers ==
    catalog.written =>
        \A i, j \in 1..Len(catalog.policies) :
            catalog.policies[i].lcd_id = catalog.policies[j].lcd_id => i = j

\* C3 witness: LCDPolicyFinder wrote a catalog after a report had listed policy
\* 30000 and the pattern probe had fetched the valid page of 30000 as well
C3_Witness ==
    /\ prog = "finder" /\ catalog.written
    /\ Len(catalog.policies) >= 2
    /\ CopiesIn(30000, fetched) = 1
    /\ \E i \in 1..Len(catalog.policies) :
           /\ catalog.policies[i].lcd_id = ToStr(30000)
           /\ catalog.policies[i].url # ProbeUrl(30000)
    /\ misses = 0

\* the first record of the list s that carries the identifier id
FirstWithId(s, id) ==
    s[CHOOSE i \in 1..Len(s) :
          s[i].lcd_id = id /\ \A j \in 1..(i - 1) : s[j].lcd_id # id]

SeededRecord(n) ==
    [validate_lcd_url(PolicyPage(n), n, "none") EXCEPT !.found_date = 0]

RangeRecord(n) ==
    [pattern_policy_info(PolicyPage(n), n, "none") EXCEPT !.found_date = 1]

\* C4: first discoverer wins.  The catalog holds, for every identifier that
\* was discovered, the first record discovered for it and no other; a probe
\* that produces a record for an identifier already held leaves the earlier
\* record in place; and seeded {33822} followed by range probing {33822, 35000}
\* gives exactly [33822 as seeded, 35000].
C4_FirstDiscovererWins ==
    /\ (catalog.written /\ prog \in {"finder", "merge", "simple", "quick"}) =>
           /\ \A i \in 1..Len(catalog.policies) :
                  /\ \E j \in 1..Len(lcd_urls) :
                         lcd_urls[j].lcd_id = catalog.policies[i].lcd_id
                  /\ catalog.policies[i] = FirstWithId(lcd_urls, catalog.policies[i].lcd_id)
           /\ \A j \in 1..Len(lcd_urls) :
                  \E i \in 1..Len(catalog.policies) :
                      catalog.policies[i].lcd_id = lcd_urls[j].lcd_id
    /\ (prog \in {"finder", "simple"} /\ out.result # None) =>
           \E j \in 1..Len(lcd_urls) :
               /\ lcd_urls[j].lcd_id = out.result.lcd_id
               /\ lcd_urls[j].found_date <= out.result.found_date
               /\ \A i \in 1..Len(lcd_urls) : lcd_urls[i].lcd_id = out.result.lcd_id => i = j
    /\ (/\ prog = "merge" /\ pc = "saved once"
        /\ lcd_urls = <<SeededRecord(33822), RangeRecord(33822), RangeRecord(35000)>>) =>
           catalog.policies = <<SeededRecord(33822), RangeRecord(35000)>>

\* C4 witness: the scenario has been merged
C4_Witness ==
    /\ prog = "merge" /\ pc = "saved once"
    /\ lcd_urls = <<SeededRecord(33822), RangeRecord(33822), RangeRecord(35000)>>
    /\ catalog.total_policies = 2

\* the list that was doubled
HalfOf(s) ==
    SubSeq(s, 1, Len(s) \div 2)

\* C5: dedup idempotence.  The merge step applied to R \o R writes the same
\* policies and the same total as the merge step applied to R.
C5_DedupIdempotence ==
    (prog = "merge" /\ pc = "saved twice") =>
        /\ catalog.policies = Finder_output_data(HalfOf(lcd_urls)).policies
        /\ catalog.total_policies = Finder_output_data(HalfOf(lcd_urls)).total_policies

\* C5 witness: a list of three records, two of them for one identifier, was
\* doubled and merged
C5_Witness ==
    /\ prog = "merge" /\ pc = "saved twice"
    /\ Len(lcd_urls) = 6
    /\ catalog.total_policies = 2
    /\ lcd_urls[1].lcd_id = lcd_urls[3].lcd_id
    /\ lcd_urls[1] # lcd_urls[3]

\* a letter L with a digit behind it
HasDocCode(s) ==
    \E i \in 1..(Len(s) - 1) : s[i] = "L" /\ IsDigit(s[i + 1])

\* s is the letter L followed by the decimal text of the number n
IsLThenDecimal(s, n) ==
    /\ Len(s) >= 2
    /\ s[1] = "L"
    /\ IsNumeric(Tail(s))
    /\ (Len(s) > 2 => s[2] # "0")
    /\ ToInt(Tail(s)) = n

\* C6: derived-code fallback.  A record made for identifier N from content (or
\* from a link) in which no document code can be found has doc_id "L" + N.
C6_DerivedCodeFallback ==
    /\ (prog = "classify" /\ out.result # None /\ ~HasDocCode(page.body)) =>
           /\ IsLThenDecimal(out.result.doc_id, out.lcd_id)
           /\ Tail(out.result.doc_id) = out.result.lcd_id
    /\ (/\ prog = "links" /\ out.result # None
        /\ ~HasDocCode(page.href) /\ ~HasDocCode(page.text)) =>
           /\ IsLThenDecimal(out.result.doc_id, ToInt(out.result.lcd_id))
           /\ Tail(out.result.doc_id) = out.result.lcd_id

\* C6 witness: validate_lcd_url made a record from a page whose body holds
\* the long name and no document code
C6_Witness ==
    /\ prog = "classify" /\ out.by = "validate_lcd_url"
    /\ out.result # None
    /\ page.body = <<LCDet>>
    /\ out.result.doc_id = <<"L", "3", "3", "8", "2", "2">>

\* two results that agree in everything but found_date
SameExtraction(a, b) ==
    IF a = None \/ b = None THEN a = b
    ELSE /\ a.lcd_id = b.lcd_id
         /\ a.doc_id = b.doc_id
         /\ a.title = b.title
         /\ a.url = b.url

\* two validate_lcd_url calls in a row for the same identifier that both read
\* the same title and body
TwoObservations ==
    /\ prog = "classify"
    /\ out.by = "validate_lcd_url" /\ out'.by = "validate_lcd_url"
    /\ out.lcd_id = out'.lcd_id
    /\ page' = page
    /\ out.fault \notin {"goto", "read"} /\ out'.fault \notin {"goto", "read"}

C8_Conservative ==
    prog = "classify" =>
        /\ out.result # None => PositiveMarker(page)
        /\ ~PositiveMarker(page) => lcd_urls = <<>> /\ processed_ids = {}

\* C8 witness: a page with neither marker and without a negative signal loaded
\* without error, was classified, and no record came of it
C8_Witness ==
    /\ prog = "classify" /\ pc # "first"
    /\ out.by = "quick_find_lcd_policies" /\ out.fault = "none"
    /\ page.title = <<" - CMS">> /\ page.body = <<"L", "7">>
    /\ out.result = None /\ lcd_urls = <<>>

\* C9: skip processed identifiers.  A range scan issues no goto for an
\* identifier that is in processed_ids when the scan reaches it.
C9_SkipProcessed ==
    [][(pc \in {"coarse", "dense", "patterns"}) =>
           \A id \in BagToSet(fetched') :
               CopiesIn(id, fetched') > CopiesIn(id, fetched) => ToStr(id) \notin processed_ids]_vars

\* C10: no double probe.  In one run of find_lcd_policies_systematically no
\* identifier is fetched more than once.
C10_NoDoubleProbe ==
    prog = "simple" => \A id \in BagToSet(fetched) : CopiesIn(id, fetched) <= 1

----------------------------------------------------------------------------
(* SimpleLCDFinder run to its end: the script is sequential, every await
   returns or raises (goto and wait_for_selector carry timeouts), so a script
   that has not ended takes its next step *)

\* a step of a script that has not ended: every step reads the clock once
Step ==
    pc # "done" /\ clock' = clock + 1

SpecSimpleFair ==
    InitSimple /\ [][NextSimple]_vars /\ WF_clock(Step)

\* len(range(start, end, step)) for start <= end
RangeLen(start, end, step) ==
    (end - start + step - 1) \div step

\* how often lcd_id went through the loop over known_working_ids so far
SeedFetches(lcd_id) ==
    LET done == IF pc = "seed" THEN k - 1 ELSE Len(known_working_ids)
    IN  Cardinality({i \in 1..done : known_working_ids[i] = lcd_id})

\* the fetches the range loops issued for identifiers of the j-th search range
\* (the ranges of search_ranges do not overlap)
ProbesInRange(j) ==
    Cardinality(UNION {{<<id, c>> : c \in 1..(CopiesIn(id, fetched) - SeedFetches(id))} :
                          id \in {x \in BagToSet(fetched) :
                                     search_ranges[j][1] <= x /\ x < search_ranges[j][2]}})

\* the passes over a range: the coarse one and the dense one
PassBound(j) ==
    RangeLen(search_ranges[j][1], search_ranges[j][2], search_ranges[j][3])
        + RangeLen(search_ranges[j][1], search_ranges[j][2], DenseStep)

\* C11: refinement termination.  find_lcd_policies_systematically ends whatever
\* the remote source answers; each pass over a range goes through at most
\* ceil((end - start) / stride) identifiers and fetches at most one page per
\* identifier it goes through; a range gets a coarse pass and at most one
\* dense pass (two levels, within the three allowed) and is never entered
\* again; so the fetches for a range stay within the sum over its passes.
C11_RefinementTermination ==
    /\ [][/\ pc \in {"coarse", "dense"} =>
                BagCardinality(fetched') <=
                    BagCardinality(fetched) + (IF k' = k + 1 /\ pc' = pc THEN 1 ELSE 0)
          /\ (pc = "coarse" /\ pc' = "coarse" /\ r' = r) => k' = k + 1
          /\ (pc = "dense" /\ pc' = "dense") => (r' = r /\ k' = k + 1)
          /\ (pc = "dense" /\ pc' # "dense") => (pc' = "save" \/ (pc' = "coarse" /\ r' = r + 1))
          /\ r' \in {r, r + 1}
          /\ (pc' = "coarse" => k' <= RangeLen(RangeStart, RangeEnd, RangeStep)')
          /\ (pc' = "dense" => k' <= RangeLen(RangeStart, RangeEnd, DenseStep)')
          /\ \A j \in 1..Len(search_ranges) : ProbesInRange(j)' <= PassBound(j)]_vars
    /\ [](pc \notin {"save", "done"} =>
              ENABLED (\/ SimpleSeed
                       \/ SimpleCoarseProbe \/ SimpleCoarseSkip \/ SimpleCoarseEnd
                       \/ SimpleDenseProbe \/ SimpleDenseSkip \/ SimpleDenseEnd))
    /\ <>(pc = "done")

\* C11 witness: the run is over, it made a dense pass over the first range
\* (33010 is on the dense grid only) and fetched more than the coarse passes
C11_Witness ==
    /\ prog = "simple" /\ pc = "done"
    /\ CopiesIn(33010, fetched) = 1
    /\ ProbesInRange(1) > RangeLen(33000, 34000, 50)
    /\ r = Len(search_ranges)

----------------------------------------------------------------------------
(* LCDPolicyFinder run to its end: main() awaits comprehensive_search and then
   calls save_to_json; every await returns or raises *)

SpecFinderFair ==
    InitFinder /\ [][NextFinder]_vars /\ WF_clock(Step)

\* the last call into the page layer raised
StrategyFailed ==
    out.by \in {"search_via_reports", "search_via_keyword", "try_known_lcd_patterns"}
        /\ out.fault = "goto"

\* every record of the list s stands in the catalog
AllInCatalog(s) ==
    \A j \in 1..Len(s) :
        \E i \in 1..Len(catalog.policies) : catalog.policies[i] = s[j]

\* C12: strategy failure isolation.  A failure of the page layer inside a
\* strategy ends at most that strategy: the strategies run in their order and
\* none is left out (every report is tried, then the keyword search, then the
\* pattern probing, then save_to_json), a record once appended to lcd_urls
\* stays where it is, the catalog written holds every record of lcd_urls, and
\* after a failure the run goes on to the remaining strategies and to its end.
C12_FailureIsolation ==
    /\ [][/\ pc = "reports" => \/ pc' = "reports" /\ r' = r + 1
                               \/ pc' = "keyword" /\ r = Len(report_urls)
          /\ pc = "keyword" => pc' = "patterns"
          /\ pc = "patterns" => pc' \in {"patterns", "save"}
          /\ pc = "save" => pc' = "done" /\ catalog'.written
          /\ Len(lcd_urls') >= Len(lcd_urls)
          /\ \A j \in 1..Len(lcd_urls) : lcd_urls'[j] = lcd_urls[j]
          /\ catalog'.written => AllInCatalog(lcd_urls)']_vars
    /\ [](pc \notin {"save", "done"} =>
              ENABLED (\/ FinderReport \/ FinderKeyword
                       \/ FinderPatternProbe \/ FinderPatternEnd))
    /\ StrategyFailed ~> (pc = "done" /\ catalog.written /\ AllInCatalog(lcd_urls))

\* C12 witness: the pattern probing meets a fetch failure at 30100 after a
\* report had listed policy 34567 and the probe of 30000 had found one
C12_Witness ==
    /\ prog = "finder" /\ pc = "patterns"
    /\ StrategyFailed /\ out.lcd_id = 30100
    /\ Len(lcd_urls) = 2
    /\ lcd_urls[1].lcd_id = ToStr(34567)
    /\ lcd_urls[2].url = ProbeUrl(30000)

\* the step is a probe whose fetch failed
FailedProbe ==
    /\ fetched' # fetched
    /\ out'.by \in ProbeClassifiers
    /\ out'.fault = "goto"

\* C13: probe failure is a skip.  A probe whose fetch fails yields no record,
\* leaves lcd_urls, processed_ids and the catalog as they were, fetched its
\* identifier once and nothing else, and the loop goes on to its next
\* candidate (or, after the last candidate, to what follows the loop); the
\* next fetch of the loop is for another identifier.
C13_ProbeFailureIsSkip ==
    [][/\ FailedProbe =>
              /\ out'.result = None
              /\ lcd_urls' = lcd_urls
              /\ processed_ids' = processed_ids
              /\ catalog' = catalog
              /\ fetched' = fetched (+) SetToBag({out'.lcd_id})
              /\ \/ pc' = pc /\ k' = k + 1
                 \/ pc = "seed" /\ k = Len(known_working_ids) /\ pc' = "coarse"
                 \/ pc = "loop" /\ k = Len(test_ids) /\ pc' = "save"
       /\ (/\ out.by \in ProbeClassifiers /\ out.fault = "goto"
           /\ fetched' # fetched /\ pc' = pc /\ k > 0) =>
              out'.lcd_id # out.lcd_id]_vars

\* C13 witness: the coarse pass has just met a fetch failure at 33050 after it
\* had found the policy 33000, and stands before its next candidate
C13_Witness ==
    /\ prog = "simple" /\ pc = "coarse" /\ r = 1 /\ k = 2
    /\ out.fault = "goto" /\ out.lcd_id = 33050
    /\ ToStr(33000) \in processed_ids
    /\ ToStr(33050) \notin processed_ids
    /\ CopiesIn(33050, fetched) = 1

\* what a run keeps count of or writes out: the counters of the loops, the
\* list of records with its identifier set, and output_data
RunReport ==
    <<total_tested, found_count, range_found, Len(lcd_urls), processed_ids, catalog>>

\* C14: diagnostic counting.  A probe skipped because its fetch failed is
\* counted: the step leaves a mark in what the run counts or writes, without
\* which no count reported at the end can equal the number of failed fetches.
C14_DiagnosticCounting ==
    [][FailedProbe => RunReport' # RunReport]_vars

\* one step inside a pass over the grid start, start + step, ... below end:
\* it takes the identifier at position k, which lies below end, fetches that
\* identifier or none, and moves to position k + 1
GridStep(start, end, step) ==
    LET lcd_id == start + k * step
    IN  /\ k' = k + 1
        /\ lcd_id < end
        /\ \/ fetched' = fetched
           \/ fetched' = fetched (+) SetToBag({lcd_id}) /\ out'.lcd_id = lcd_id
        /\ \/ lcd_urls' = lcd_urls
           \/ /\ out'.result # None /\ out'.lcd_id = lcd_id
              /\ lcd_urls' = Append(lcd_urls, out'.result)

\* the coarse pass of SimpleLCDFinder and the pass of try_known_lcd_patterns
\* start at the start of the range and go up the grid, candidate by candidate
PassesFollowGrid ==
    /\ (pc' = "coarse" /\ (pc # "coarse" \/ r' # r)) => k' = 0
    /\ (pc' = "patterns" /\ pc # "patterns") => k' = 0
    /\ (pc = "coarse" /\ pc' = "coarse" /\ r' = r) =>
           GridStep(search_ranges[r][1], search_ranges[r][2], search_ranges[r][3])
    /\ (pc = "patterns" /\ pc' = "patterns") =>
           GridStep(test_lcd_ids[1], test_lcd_ids[2], test_lcd_ids[3])
    /\ (pc = "coarse" /\ ~(pc' = "coarse" /\ r' = r)) =>
           search_ranges[r][1] + k * search_ranges[r][3] >= search_ranges[r][2]

\* C15 as claimed: both passes consider exactly the identifiers of the grid
\* below end: a pass ends only when the grid is used up.
C15_HalfOpenAsClaimed ==
    [][/\ PassesFollowGrid
       /\ (pc = "patterns" /\ pc' # "patterns") =>
              test_lcd_ids[1] + k * test_lcd_ids[3] >= test_lcd_ids[2]]_vars

\* C15 as amended: half-open range scan.  A pass considers only identifiers
\* start + k * stride below end, from start upwards without a gap, each once;
\* end itself is never probed; a record is added only for a candidate the
\* classifier accepted.  The coarse pass of SimpleLCDFinder goes through all
\* of them; try_known_lcd_patterns goes through all of them unless found_count
\* has reached 10, where it stops.
C15_HalfOpenRangeScan ==
    [][/\ PassesFollowGrid
       /\ (pc = "patterns" /\ pc' # "patterns") =>
              \/ test_lcd_ids[1] + k * test_lcd_ids[3] >= test_lcd_ids[2]
              \/ found_count >= PatternLimit]_vars

\* C15 witness: try_known_lcd_patterns has stopped at its tenth record with
\* identifiers of the range left, after it had gone up the grid from 30000
C15_Witness ==
    /\ prog = "finder" /\ pc = "save"
    /\ found_count = PatternLimit
    /\ test_lcd_ids[1] + k * test_lcd_ids[3] < test_lcd_ids[2]
    /\ \A j \in 0..(k - 1) : CopiesIn(test_lcd_ids[1] + j * test_lcd_ids[3], fetched) = 1
    /\ BagCardinality(fetched) = k

----------------------------------------------------------------------------
(* LCDPolicyFinder.extract_all_lcd_results: the pagination loop *)

\* max_pages, the safety limit of the loop
max_pages ==
    50

\* page_num: in this loop k holds it
page_num ==
    k

\* a results page as the loop sees it: its links and whether the next-page
\* selector finds an element
ResultsPage(links, next_link) ==
    [links |-> links, next_link |-> next_link]

\* the link lists results page n may show: nothing, a policy not seen before,
\* the policy of the page before, a new policy among links that are skipped
ResultLinks(n) ==
    {<<>>,
     <<ReportLink(40000 + n)>>,
     <<ReportLink(40000 + n - 1)>>,
     <<NoNumberLink, ReportLink(40000 + n), SearchLink>>}

\* where one pass of the loop may raise: nowhere, in the wait at its top, or in
\* the try block that looks for the next page and clicks it
PageFaults ==
    {"none", "wait", "next"}

\* the loop over links (line 160) from position i on
RECURSIVE ResultLinksFrom(_, _, _)
ResultLinksFrom(links, i, st) ==
    IF i > Len(links) THEN st
    ELSE ResultLinksFrom(links, i + 1, ResultLinkBody(links[i], st))

\* the loop over result_selectors (line 157): the selectors in found return the
\* links of the page, the others raise and are passed over
RECURSIVE ResultSelectorsFrom(_, _, _, _)
ResultSelectorsFrom(links, found, s, st) ==
    IF s > 4 THEN st
    ELSE ResultSelectorsFrom(links, found, s + 1,
                             IF s \in found THEN ResultLinksFrom(links, 1, st) ELSE st)

Advances_AnyNext(next_link, new_count) ==
    next_link

\* the condition of line 195
Advances(next_link, new_count) ==
    next_link /\ new_count > 0

\* one pass of the while loop (lines 139-208)
PagesPage ==
    /\ prog = "pages" /\ pc = "paging"
    /\ page_num <= max_pages
    /\ \E links \in ResultLinks(page_num), found \in {{}, {1}, {2, 4}, 1..4},
          next_link \in BOOLEAN, fault \in PageFaults :
          LET cur       == [urls |-> lcd_urls, ids |-> processed_ids]
              st        == IF fault = "wait" THEN cur
                           ELSE ResultSelectorsFrom(links, found, 1, cur)
              new_count == Len(st.urls) - Len(lcd_urls)
              advance   == fault = "none" /\ Advances(next_link, new_count)
          IN  /\ lcd_urls' = st.urls
              /\ processed_ids' = st.ids
              /\ page' = ResultsPage(links, next_link)
              /\ out' = Call("extract_all_lcd_results", 0, fault, None)
              /\ k' = IF advance THEN page_num + 1 ELSE page_num
              /\ pc' = IF advance THEN "paging" ELSE "done"
    /\ clock' = clock + 1
    /\ UNCHANGED <<downloader, files, prog, catalog, r, range_found, total_tested, found_count, misses,
                   fetched>>

\* the loop condition of line 139 fails
PagesEnd ==
    /\ prog = "pages" /\ pc = "paging"
    /\ page_num > max_pages
    /\ pc' = "done"
    /\ clock' = clock + 1
    /\ UNCHANGED <<downloader, files, prog, lcd_urls, processed_ids, catalog, k, r, range_found,
                   total_tested, found_count, misses, fetched, page, out>>

NextPages ==
    \/ PagesPage
    \/ PagesEnd

InitPages ==
    /\ prog = "pages"
    /\ pc = "paging"
    /\ lcd_urls = <<>>
    /\ processed_ids = {}
    /\ catalog = NoCatalog
    /\ clock = 0
    /\ k = 1
    /\ r = 1
    /\ range_found = 0
    /\ total_tested = 0
    /\ found_count = 0
    /\ misses = 0
    /\ fetched = EmptyBag
    /\ page = ResultsPage(<<>>, FALSE)
    /\ out = NoCall
    /\ downloader = NoDownloader
    /\ files = {}

SpecPages ==
    InitPages /\ [][NextPages]_vars

SpecPagesFair ==
    SpecPages /\ WF_clock(Step)

\* C16: extract_all_lcd_results processes at most max_pages result pages and
\* always terminates; it goes on to a next page only when the page it is on gave
\* at least one new identifier and a next-page link was found, and the first
\* page where either fails is the last page it processes
C16_BoundedPagination ==
    /\ [][/\ page_num' \in 1..(max_pages + 1)
          /\ (pc = "paging" /\ page_num <= max_pages) =>
                 /\ clock = page_num - 1
                 /\ (page_num' = page_num + 1 /\ pc' = "paging")
                        \/ (page_num' = page_num /\ pc' = "done")
                 /\ pc' = "paging" =>
                        /\ Len(lcd_urls') > Len(lcd_urls)
                        /\ page'.next_link
                 /\ (Len(lcd_urls') = Len(lcd_urls) \/ ~page'.next_link) => pc' = "done"
          /\ pc = "done" => pc' = "done"]_vars
    /\ [](pc # "done" => ENABLED NextPages)
    /\ <>(pc = "done")

C16_Witness ==
    /\ prog = "pages" /\ pc = "done"
    /\ page_num = max_pages + 1
    /\ clock = max_pages + 1
    /\ Len(lcd_urls) = max_pages
    /\ lcd_urls[max_pages].lcd_id = ToStr(40000 + max_pages)

\* C17: in every written catalog, whichever writer wrote it, total_policies is
\* the number of entries of policies
C17_TotalCount ==
    catalog.written => catalog.total_policies = Len(catalog.policies)

C17_Witness ==
    /\ prog = "merge" /\ catalog.written
    /\ Len(catalog.policies) < Len(lcd_urls)
    /\ catalog.total_policies = Len(catalog.policies)
    /\ catalog.total_policies > 1

\* the counts a catalog reports beside total_policies: the validated and the
\* estimated policies of save_comprehensive_lcd_list; the other writers dump
\* search_date, total_policies, source, search_method and policies only
ReportedCounts(c) ==
    IF {"validated_policies", "estimated_policies"} \subseteq DOMAIN c
    THEN <<c.validated_policies, c.estimated_policies>>
    ELSE <<>>

\* C18: every written catalog reports a count of its records for each strategy
\* that supplied them, and these counts add up to total_policies
C18_StrategyBreakdown ==
    catalog.written =>
        /\ ReportedCounts(catalog) # <<>>
        /\ ReportedCounts(catalog)[1] + ReportedCounts(catalog)[2] = catalog.total_policies

\* the fields of a policy_info
RecordFields ==
    {"lcd_id", "doc_id", "title", "url", "found_date"}

\* C19: no partial record.  Every entry of lcd_urls has the five fields of a
\* policy_info at all times; a step either leaves lcd_urls and processed_ids as
\* they were or appends one such entry, and a probe that raised in the fetch or
\* while the page was read leaves both as they were.
C19_NoPartialRecord ==
    /\ \A i \in 1..Len(lcd_urls) : RecordFields \subseteq DOMAIN lcd_urls[i]
    /\ [][/\ \A i \in 1..Len(lcd_urls') : RecordFields \subseteq DOMAIN lcd_urls'[i]
          /\ \/ lcd_urls' = lcd_urls /\ processed_ids' = processed_ids
             \/ /\ Len(lcd_urls') = Len(lcd_urls) + 1
                /\ SubSeq(lcd_urls', 1, Len(lcd_urls)) = lcd_urls
                /\ out'.fault \notin {"goto", "read"}
                /\ processed_ids' \in {processed_ids,
                                      processed_ids \cup {lcd_urls'[Len(lcd_urls')].lcd_id}}
          /\ out'.fault \in {"goto", "read"} =>
                 /\ out'.result = None
                 /\ lcd_urls' = lcd_urls
                 /\ processed_ids' = processed_ids]_vars

\* C19 witness: a page that is a policy page was fetched, reading it raised,
\* and neither list has gained anything
C19_Witness ==
    /\ prog = "classify" /\ pc = "second"
    /\ out.by = "validate_lcd_url" /\ out.fault = "read"
    /\ Contains(page.body, LCDet)
    /\ CopiesIn(out.lcd_id, fetched) = 1
    /\ lcd_urls = <<>> /\ processed_ids = {}

\* main() of the two discovery scripts that search through strategies
InitRuns ==
    InitSimple \/ InitFinder

NextRuns ==
    NextSimple \/ NextFinder

SpecRunsFair ==
    InitRuns /\ [][NextRuns]_vars /\ WF_clock(Step)

\* C20: write-once catalog.  A run writes the catalog once: it is written by
\* the step that follows the last strategy, never before, never changed after,
\* and every run comes to write it; once it is written no page is fetched and
\* lcd_urls stays as it is, and the write itself adds no record.
C20_WriteOnceCatalog ==
    /\ [][/\ catalog' # catalog =>
                 /\ ~catalog.written /\ catalog'.written
                 /\ pc = "save" /\ pc' = "done"
                 /\ Len(lcd_urls') = Len(lcd_urls)
                 /\ fetched' = fetched
          /\ pc \notin {"save", "done"} => ~catalog'.written
          /\ catalog.written =>
                 /\ lcd_urls' = lcd_urls
                 /\ fetched' = fetched
                 /\ out' = out
                 /\ pc' = "done"]_vars
    /\ [](pc \notin {"save", "done"} =>
              ENABLED (\/ SimpleSeed \/ SimpleCoarseProbe \/ SimpleCoarseSkip
                       \/ SimpleCoarseEnd \/ SimpleDenseProbe \/ SimpleDenseSkip
                       \/ SimpleDenseEnd \/ FinderReport \/ FinderKeyword
                       \/ FinderPatternProbe \/ FinderPatternEnd))
    /\ <>(catalog.written /\ pc = "done")

\* C20 witness: the finder has written its catalog after a run in which a live
\* identifier served no policy page and two strategies supplied records
C20_Witness ==
    /\ prog = "finder" /\ pc = "done" /\ catalog.written
    /\ misses > 0
    /\ Len(lcd_urls) >= 2
    /\ lcd_urls[1].url # ProbeUrl(ToInt(lcd_urls[1].lcd_id))
    /\ lcd_urls[Len(lcd_urls)].url = ProbeUrl(ToInt(lcd_urls[Len(lcd_urls)].lcd_id))
    /\ catalog.total_policies = Len(lcd_urls)

\* the step ends the coarse pass over the range r
CoarsePassEnds ==
    prog = "simple" /\ pc = "coarse" /\ ~(pc' = "coarse" /\ r' = r)

\* the step is a probe of the dense pass over the range r
DenseProbes ==
    prog = "simple" /\ pc = "dense" /\ fetched' # fetched

\* the dense pass probes identifiers of the range of the coarse pass only
DenseInRange ==
    DenseProbes => /\ RangeStart <= out'.lcd_id
                   /\ out'.lcd_id < RangeEnd

\* C21 as claimed: the range is scanned again exactly when more than 0.05 of the
\* identifiers the coarse pass probed gave a record, and the second scan has
\* the stride max(1, stride / 5)
C21_DensityAsClaimed ==
    [][/\ (CoarsePassEnds /\ ProbesInRange(r) > 0) =>
              (pc' = "dense" <=> range_found * 100 > 5 * ProbesInRange(r))
       /\ DenseInRange
       /\ DenseProbes =>
              \E j \in 0..k : out'.lcd_id =
                   RangeStart + j * (IF RangeStep \div 5 > 1 THEN RangeStep \div 5 ELSE 1)]_vars

\* C21: the range is scanned again exactly when the coarse pass added more
\* than DenseThreshold records (range_found > 5), whatever the number of
\* identifiers it probed, and the second scan has the stride DenseStep (10)
C21_DensityRefinement ==
    [][/\ CoarsePassEnds => (pc' = "dense" <=> range_found > DenseThreshold)
       /\ CoarsePassEnds => (pc' = "dense" => (r' = r /\ k' = 0))
       /\ DenseInRange
       /\ DenseProbes => out'.lcd_id = RangeStart + k * DenseStep]_vars

\* C21 witness: six records came from the coarse pass over the first range and
\* the dense pass has probed 33010
C21_Witness ==
    /\ prog = "simple" /\ pc = "dense" /\ r = 1 /\ k = 2
    /\ range_found = DenseThreshold + 1
    /\ out.lcd_id = 33010
    /\ CopiesIn(33010, fetched) = 1

\* C22: refinement only narrows.  For every range of search_ranges the second
\* scan has a stride of at least 1 that is smaller than the stride of the
\* first; the second scan stays within [start, end) of the range, its
\* candidates lie on that finer grid from start on, it begins only at the end
\* of a coarse pass over the same range, and after it the search goes to the
\* next range or ends: below a coarse pass there is one further pass and no more.
C22_RefinementOnlyNarrows ==
    /\ \A j \in 1..Len(search_ranges) :
           1 <= DenseStep /\ DenseStep < search_ranges[j][3]
    /\ [][/\ DenseInRange
          /\ (DenseProbes /\ k > 0) =>
                 /\ (out'.lcd_id - RangeStart) % k = 0
                 /\ (out'.lcd_id - RangeStart) \div k >= 1
                 /\ (out'.lcd_id - RangeStart) \div k < RangeStep
          /\ (prog = "simple" /\ pc # "dense" /\ pc' = "dense") =>
                 /\ pc = "coarse" /\ r' = r /\ k' = 0
                 /\ ~InRange(RangeStart, RangeEnd, RangeStep, k)
          /\ (prog = "simple" /\ pc = "dense") =>
                 \/ pc' = "dense" /\ r' = r /\ k' = k + 1
                 \/ pc' = "coarse" /\ r' = r + 1 /\ k' = 0
                 \/ pc' = "save"]_vars

\* C22 witness: the dense pass over the first range has run to its last
\* candidate and the search stands at the start of the second range
C22_Witness ==
    /\ prog = "simple" /\ pc = "coarse" /\ r = 2 /\ k = 0
    /\ CopiesIn(33010, fetched) = 1
    /\ CopiesIn(search_ranges[1][2] - DenseStep, fetched) = 1
    /\ CopiesIn(search_ranges[1][2], fetched) = 0

----------------------------------------------------------------------------
(* find_lcd_policies_systematically on a finder that has searched before *)

\* the candidates of the coarse pass over the first range
FirstRangeCandidates ==
    {RangeAt(search_ranges[1][1], search_ranges[1][3], j) :
        j \in 0..(RangeLen(search_ranges[1][1], search_ranges[1][2], search_ranges[1][3]) - 1)}

\* the record an earlier search appended for lcd_id
EarlierRecord(lcd_id) ==
    [validate_lcd_url(PolicyPage(lcd_id), lcd_id, "none") EXCEPT !.found_date = 0]

\* the records of an earlier search that found every candidate of the first range
EarlierRecords ==
    [j \in 1..Cardinality(FirstRangeCandidates) |->
        EarlierRecord(RangeAt(search_ranges[1][1], search_ranges[1][3], j - 1))]

\* SimpleLCDFinder.__init__ and a search that found every candidate of the
\* first range, then find_lcd_policies_systematically up to the first seed
InitSearchedBefore ==
    /\ prog = "simple"
    /\ pc = "seed"
    /\ clock = 1
    /\ lcd_urls = EarlierRecords
    /\ processed_ids = {ToStr(n) : n \in FirstRangeCandidates}
    /\ catalog = NoCatalog
    /\ k = 1
    /\ r = 1
    /\ range_found = 0
    /\ total_tested = 0
    /\ found_count = 0
    /\ misses = 0
    /\ fetched = EmptyBag
    /\ page = NoPage
    /\ out = NoCall
    /\ downloader = NoDownloader
    /\ files = {}

\* the search of a new finder and of one that has searched before
SpecSearches ==
    (InitSimple \/ InitSearchedBefore) /\ [][NextSimple]_vars

\* C23: empty coarse pass.  While the coarse pass over a range has probed no
\* identifier, lcd_urls and processed_ids are as they were and range_found is
\* 0; when such a pass ends no second scan of the range begins: the search
\* goes to the next range, or ends, with both lists unchanged.
C23_EmptyCoarsePass ==
    [][/\ (prog = "simple" /\ pc = "coarse" /\ pc' = "coarse" /\ r' = r
              /\ ProbesInRange(r)' = 0) =>
              /\ lcd_urls' = lcd_urls
              /\ processed_ids' = processed_ids
              /\ range_found' = 0
       /\ (CoarsePassEnds /\ ProbesInRange(r) = 0) =>
              /\ pc' # "dense"
              /\ pc' = "save" \/ (pc' = "coarse" /\ r' = r + 1 /\ k' = 0)
              /\ lcd_urls' = lcd_urls
              /\ processed_ids' = processed_ids]_vars

\* C23 witness: every candidate of the first range was in processed_ids, the
\* coarse pass over it has ended without a probe, and the search stands at the
\* start of the second range with the lists it began with
C23_Witness ==
    /\ prog = "simple" /\ pc = "coarse" /\ r = 2 /\ k = 0
    /\ ProbesInRange(1) = 0
    /\ total_tested = 0
    /\ \A n \in FirstRangeCandidates : ToStr(n) \in processed_ids
    /\ SubSeq(lcd_urls, 1, Len(EarlierRecords)) = EarlierRecords
    /\ \A i \in 1..Len(lcd_urls) :
           ToInt(lcd_urls[i].lcd_id) \in FirstRangeCandidates \cup {33822, 35000}

\* the title the claim asks for: the first non-empty of the heading's text and
\* the page title without " - CMS", else the placeholder
FirstNonEmptyTitle(pg, lcd_id) ==
    LET heading == IF pg.h1.present THEN Strip(pg.h1.text) ELSE <<>>
        cleaned == Strip(Remove(pg.title, " - CMS"))
    IN  IF heading # <<>> THEN heading
        ELSE IF cleaned # <<>> THEN cleaned
        ELSE PlaceholderTitle(lcd_id)

\* C24: title extraction.  The title of a record that validate_lcd_url or
\* quick_find_lcd_policies makes from a page read without an exception is the
\* first non-empty of the heading's text and the cleaned page title, the
\* placeholder when there is neither, and so is never empty.
C24_TitleExtraction ==
    (/\ prog = "classify"
     /\ out.by \in {"validate_lcd_url", "quick_find_lcd_policies"}
     /\ out.fault = "none"
     /\ out.result # None) =>
        /\ out.result.title # <<>>
        /\ out.result.title = FirstNonEmptyTitle(page, out.lcd_id)

\* the lcd_id values of the entries of the list s
IdsOf(s) ==
    {s[i].lcd_id : i \in 1..Len(s)}

\* C25: the dedup set mirrors the result list.  At every point of a run of
\* LCDPolicyFinder or SimpleLCDFinder processed_ids is the set of the lcd_id
\* values of the entries of lcd_urls, and until the catalog is written every
\* step leaves the entries lcd_urls had where they were, adding at its end.
C25_DedupSetMirrorsList ==
    /\ prog \in {"simple", "finder"} => processed_ids = IdsOf(lcd_urls)
    /\ [][/\ prog \in {"simple", "finder"} => processed_ids' = IdsOf(lcd_urls')
          /\ (prog \in {"simple", "finder"} /\ ~catalog'.written) =>
                 (/\ Len(lcd_urls') >= Len(lcd_urls)
                  /\ SubSeq(lcd_urls', 1, Len(lcd_urls)) = lcd_urls)]_vars

\* C25 witness: a report listed policy 30000, the pattern probe then read the
\* valid page of 30000 and added nothing, and a later probe added a record
C25_Witness ==
    /\ prog = "finder" /\ pc = "patterns" /\ ~catalog.written
    /\ Len(lcd_urls) >= 2
    /\ lcd_urls[1].lcd_id = ToStr(30000)
    /\ lcd_urls[1].url # ProbeUrl(30000)
    /\ CopiesIn(30000, fetched) = 1
    /\ out.by = "try_known_lcd_patterns" /\ out.result # None
    /\ lcd_urls[Len(lcd_urls)] = out.result
    /\ Cardinality(processed_ids) = Len(lcd_urls)

\* the step is a fetch of try_known_lcd_patterns
PatternProbes ==
    prog = "finder" /\ pc = "patterns" /\ fetched' # fetched

\* C26: bounded pattern probing.  try_known_lcd_patterns counts in found_count
\* exactly the records it adds, never more than PatternLimit (10); once it has
\* added that many it fetches nothing more; it fetches only identifiers
\* 30000 + 100 j below 40000, one after the other from 30000 upwards; and a
\* valid page of an identifier that is in processed_ids adds no record and
\* leaves found_count as it is.
C26_BoundedPatternProbing ==
    [][/\ (prog = "finder" /\ pc = "patterns") =>
              /\ found_count' <= PatternLimit
              /\ found_count' - found_count = Len(lcd_urls') - Len(lcd_urls)
              /\ found_count' \in {found_count, found_count + 1}
              /\ found_count >= PatternLimit => fetched' = fetched
       /\ PatternProbes =>
              /\ fetched' = fetched (+) SetToBag({out'.lcd_id})
              /\ out'.lcd_id = 30000 + 100 * k
              /\ k \in 0..99
              /\ k' = k + 1
              /\ (out'.result # None /\ ToStr(out'.lcd_id) \in processed_ids) =>
                     (lcd_urls' = lcd_urls /\ found_count' = found_count)
              /\ (out'.result # None /\ ToStr(out'.lcd_id) \notin processed_ids) =>
                     (lcd_urls' = Append(lcd_urls, out'.result)
                          /\ found_count' = found_count + 1)]_vars

\* C26 witness: a report had listed policy 30000; the pattern probes read its
\* valid page without counting it, then added the ten policies 30100..31000,
\* and stopped before 31100
C26_Witness ==
    /\ prog = "finder" /\ pc = "save"
    /\ found_count = PatternLimit
    /\ lcd_urls[1].lcd_id = ToStr(30000)
    /\ lcd_urls[1].url # ProbeUrl(30000)
    /\ Len(lcd_urls) = PatternLimit + 1
    /\ \A j \in 0..PatternLimit : CopiesIn(30000 + 100 * j, fetched) = 1
    /\ CopiesIn(30000 + 100 * (PatternLimit + 1), fetched) = 0
    /\ misses = 0

----------------------------------------------------------------------------
(* BulkLCDDownloader: download_all_policies of Step3_Download_Allpolicies.py *)

\* a policy of All_urls.json as the finders write it
CatalogPolicy(lcd_id) ==
    [lcd_id     |-> ToStr(lcd_id),
     doc_id     |-> DerivedCode(lcd_id),
     title      |-> PlaceholderTitle(lcd_id),
     url        |-> ProbeUrl(lcd_id),
     found_date |-> 0]

\* a policy of All_urls.json that has no url
PolicyWithoutUrl(lcd_id) ==
    [lcd_id     |-> ToStr(lcd_id),
     doc_id     |-> DerivedCode(lcd_id),
     title      |-> PlaceholderTitle(lcd_id),
     found_date |-> 0]

\* the policies load_policy_urls may return
LoadedPolicies ==
    StringsUpTo({CatalogPolicy(33822), CatalogPolicy(35000), PolicyWithoutUrl(38617)},
                MaxPolicies)

\* how download_policy_pdf may go once it is past the test for the file: no
\* exception, page.goto raises, page.pdf raises, page.pdf returns and the file
\* is not there
DownloadFaults ==
    {"none", "goto", "pdf", "nofile"}

\* the keys read in lines 67-70
PolicyKeys ==
    {"lcd_id", "doc_id", "title", "url"}

\* {**policy, 'error': error}
WithError(policy, error) ==
    [key \in DOMAIN policy \cup {"error"} |->
        IF key = "error" THEN error ELSE policy[key]]

\* lines 131-133 and 137-139: the downloader after a failure
Failed(d, policy, error) ==
    [d EXCEPT !.failed_count = @ + 1,
              !.failed_policies = Append(@, WithError(policy, error))]

\* download_policy_pdf(page, policy): the downloader and the files after it,
\* what it returned, and whether page.goto was issued
download_policy_pdf(policy, fault) ==
    IF ~(PolicyKeys \subseteq DOMAIN policy)
    THEN [downloader |-> Failed(downloader, policy, "KeyError"), files |-> files,
          returned |-> FALSE, goto |-> FALSE]
    ELSE IF policy.lcd_id \in files
    THEN [downloader |-> downloader, files |-> files, returned |-> TRUE, goto |-> FALSE]
    ELSE IF fault \in {"goto", "pdf"}
    THEN [downloader |-> Failed(downloader, policy, fault), files |-> files,
          returned |-> FALSE, goto |-> TRUE]
    ELSE IF fault = "nofile"
    THEN [downloader |-> Failed(downloader, policy, "PDF not created"), files |-> files,
          returned |-> FALSE, goto |-> TRUE]
    ELSE [downloader |-> [downloader EXCEPT !.downloaded_count = @ + 1],
          files      |-> files \cup {policy.lcd_id},
          returned   |-> TRUE, goto |-> TRUE]

\* lines 162-167 and 175-178: one pass of the loop over policies, k policies
\* having been processed; the delay after the download returns or raises, and
\* when it raises the except clause ends the loop
DownloadPolicy ==
    /\ prog = "download" /\ pc = "loop"
    /\ k < Len(downloader.policies)
    /\ \E fault \in DownloadFaults, delay \in {"none", "raised"} :
           LET policy == downloader.policies[k + 1]
               after  == download_policy_pdf(policy, fault)
           IN  /\ downloader' = after.downloader
               /\ files' = after.files
               /\ fetched' = IF after.goto THEN Goto(ToInt(policy.lcd_id)) ELSE fetched
               /\ out' = [by |-> "download_policy_pdf", policy |-> policy,
                          result |-> after.returned, delay |-> delay]
               /\ pc' = IF delay = "raised" THEN "aborted" ELSE "loop"
    /\ k' = k + 1
    /\ clock' = clock + 1
    /\ UNCHANGED <<prog, lcd_urls, processed_ids, catalog, r, range_found,
                   total_tested, found_count, misses, page>>

\* lines 169-173: the loop is over, print_summary
DownloadSummary ==
    /\ prog = "download" /\ pc = "loop"
    /\ downloader.policies # <<>>
    /\ k = Len(downloader.policies)
    /\ pc' = "done"
    /\ clock' = clock + 1
    /\ UNCHANGED <<downloader, files, prog, lcd_urls, processed_ids, catalog, k, r,
                   range_found, total_tested, found_count, misses, fetched, page, out>>

\* lines 145-147: nothing was loaded
DownloadNothing ==
    /\ prog = "download" /\ pc = "loop"
    /\ downloader.policies = <<>>
    /\ pc' = "done"
    /\ clock' = clock + 1
    /\ UNCHANGED <<downloader, files, prog, lcd_urls, processed_ids, catalog, k, r,
                   range_found, total_tested, found_count, misses, fetched, page, out>>

NextDownload ==
    \/ DownloadPolicy
    \/ DownloadSummary
    \/ DownloadNothing

\* BulkLCDDownloader.__init__ and load_policy_urls; some PDFs may be there
\* from an earlier run
InitDownload ==
    /\ prog = "download"
    /\ pc = "loop"
    /\ lcd_urls = <<>>
    /\ processed_ids = {}
    /\ catalog = NoCatalog
    /\ clock = 0
    /\ k = 0
    /\ r = 1
    /\ range_found = 0
    /\ total_tested = 0
    /\ found_count = 0
    /\ misses = 0
    /\ fetched = EmptyBag
    /\ page = NoPage
    /\ out = [by |-> "nobody", policy |-> None, result |-> FALSE, delay |-> "none"]
    /\ \E policies \in LoadedPolicies :
           downloader = [made             |-> TRUE,
                         policies         |-> policies,
                         downloaded_count |-> 0,
                         failed_count     |-> 0,
                         failed_policies  |-> <<>>]
    /\ files \in SUBSET {ToStr(33822), ToStr(35000)}

SpecDownload ==
    InitDownload /\ [][NextDownload]_vars

\* the pass of the loop counted its policy as skipped, as downloaded or as failed
CountedSkipped ==
    /\ downloader' = downloader
    /\ files' = files
    /\ out'.policy.lcd_id \in files

CountedDownloaded ==
    /\ downloader'.downloaded_count = downloader.downloaded_count + 1
    /\ downloader'.failed_count = downloader.failed_count
    /\ downloader'.failed_policies = downloader.failed_policies

CountedFailed ==
    /\ downloader'.downloaded_count = downloader.downloaded_count
    /\ downloader'.failed_count = downloader.failed_count + 1
    /\ Len(downloader'.failed_policies) = Len(downloader.failed_policies) + 1

\* every pass of the loop takes the next policy of the list and counts it in
\* one of the three ways, and failed_count is the length of failed_policies
DownloadAccounting ==
    [][(prog = "download" /\ k' # k) =>
           /\ k' = k + 1
           /\ out'.policy = downloader.policies[k + 1]
           /\ downloader'.policies = downloader.policies
           /\ \/ CountedSkipped /\ ~CountedDownloaded /\ ~CountedFailed
              \/ ~CountedSkipped /\ CountedDownloaded /\ ~CountedFailed
              \/ ~CountedSkipped /\ ~CountedDownloaded /\ CountedFailed
           /\ downloader'.failed_count = Len(downloader'.failed_policies)
           /\ downloader'.downloaded_count + downloader'.failed_count <= k']_vars

\* the loop goes on while policies are left
AllAttempted ==
    [][(prog = "download" /\ pc = "loop" /\ pc' # "loop") =>
           k' = Len(downloader.policies)]_vars

\* C27: bulk download accounting.  download_all_policies takes every loaded
\* policy once, in list order, whatever became of the policies before it; each
\* is counted as downloaded, as failed or as skipped and as one of these only,
\* and failed_count is the length of failed_policies.
C27_BulkDownloadAccounting ==
    DownloadAccounting /\ AllAttempted

====
